---- MODULE Spec2Model ----
(***************************************************************************)
(* A model of the LOINC mapping validation / correction engine:            *)
(*   - the catalog part index and its AND-of-OR query (lib/loincUtils.js), *)
(*   - the part synonyms (lib/loincPartSynonyms.js),                       *)
(*   - the extraction framework (lib/labNameParser.js),                    *)
(*   - inference / disagreement checks (pcornetValidationMgr, the second   *)
(*     half of altLoincSuggesterGen6.js),                                  *)
(*   - target term construction, candidate search, relaxation matcher and  *)
(*     best-match selection (altLoincSuggesterGen6.js).                    *)
(*                                                                         *)
(* Strings are modelled as sequences of tokens ("texts"): the empty string *)
(* is <<>>, concatenation is \o, and the substring tests of the code are   *)
(* tests on contiguous token runs.  A JavaScript undefined that the code   *)
(* only tests for truthiness is modelled as the empty text.                *)
(***************************************************************************)
EXTENDS Integers, Sequences, FiniteSets, TLC

VARIABLES
  loincToParts,      \* loincUtils.js: the catalog entries (part lists, STATUS, ...)
  loincPartIndexex,  \* loincUtils.js: part type -> part name -> Set of LOINC_NUM
  pcnRows,           \* the batch of data rows handed to validateAndSuggest
  pc,                \* position of the program
  rowNum,            \* index of the row a forEach loop is at (1-based)
  pass,              \* number of validateAndSuggest calls started
  qParts,            \* argument of the last getLoincForParts call
  qResult,           \* result of the last getLoincForParts call
  mCtx,              \* matcher harness: row, target term and candidate
  mStatus,           \* matcher harness: isAltLoinc result per start level
  sIn,               \* selector harness: allMatches and row
  sOut,              \* selector harness: [bestMatch, rest]
  hist               \* per-row observations of the pass (pool, target, matches)

vars == <<loincToParts, loincPartIndexex, pcnRows, pc, rowNum, pass,
          qParts, qResult, mCtx, mStatus, sIn, sOut, hist>>

-----------------------------------------------------------------------------
(* Texts                                                                   *)

Empty == <<>>

T(tok) == <<tok>>

Len0(s) == Len(s) = 0

\* JS truthiness of a string
Truthy(s) == s # Empty

SubText(s, i, n) == SubSeq(s, i, i + n - 1)

\* s.startsWith(p)
StartsWith(s, p) == Len(p) <= Len(s) /\ SubSeq(s, 1, Len(p)) = p

\* s.endsWith(p)
EndsWith(s, p) == Len(p) <= Len(s) /\ SubSeq(s, Len(s) - Len(p) + 1, Len(s)) = p

\* positions (1-based) at which p occurs in s
Occurrences(s, p) == {i \in 1..(Len(s) - Len(p) + 1) : SubText(s, i, Len(p)) = p}

\* s.indexOf(p) >= 0
Contains(s, p) == Occurrences(s, p) # {}

Min(S) == CHOOSE x \in S : \A y \in S : x <= y

\* s.indexOf(p), 0-based, -1 when absent
IndexOf(s, p) == IF Contains(s, p) THEN Min(Occurrences(s, p)) - 1 ELSE -1

\* s.slice(0, -n)
DropLast(s, n) == SubSeq(s, 1, Len(s) - n)

\* s.replace(p, r) with a string pattern: the first occurrence only
ReplaceFirst(s, p, r) ==
  IF Contains(s, p)
  THEN LET i == Min(Occurrences(s, p))
       IN SubSeq(s, 1, i - 1) \o r \o SubSeq(s, i + Len(p), Len(s))
  ELSE s

\* list.includes(e)
Includes(list, e) == \E i \in 1..Len(list) : list[i] = e

\* list.some(f)
Range(list) == {list[i] : i \in 1..Len(list)}

\* list[0], undefined modelled as the empty text
First(list) == IF Len(list) = 0 THEN Empty ELSE list[1]

RECURSIVE FilterSeq(_, _)
FilterSeq(list, keep) ==
  IF list = <<>> THEN <<>>
  ELSE (IF Head(list) \in keep THEN <<Head(list)>> ELSE <<>>) \o FilterSeq(Tail(list), keep)

\* append the elements of add that are not yet in list, in order
RECURSIVE PushUnique(_, _)
PushUnique(list, add) ==
  IF add = <<>> THEN list
  ELSE PushUnique(IF Includes(list, Head(add)) THEN list ELSE Append(list, Head(add)), Tail(add))

-----------------------------------------------------------------------------
(* lib/loincUtils.js: part types                                           *)

PartTypeList == <<"CLASS", "COMPONENT", "PROPERTY", "TIME", "SYSTEM", "SCALE", "METHOD">>

PartTypes == Range(PartTypeList)

-----------------------------------------------------------------------------
(* lib/common.js: setAND, setOR.  A JavaScript Set keeps insertion order:  *)
(* it is modelled as a sequence without repetition.                        *)

NoDup(seq) == \A i, j \in 1..Len(seq) : seq[i] = seq[j] => i = j

\* Array.prototype.sort by size (stable): s goes after the sets it does not
\* strictly precede
RECURSIVE InsertBySize(_, _, _)
InsertBySize(sorted, s, largestFirst) ==
  IF sorted = <<>> THEN <<s>>
  ELSE IF (IF largestFirst THEN Len(s) > Len(Head(sorted)) ELSE Len(s) < Len(Head(sorted)))
       THEN <<s>> \o sorted
       ELSE <<Head(sorted)>> \o InsertBySize(Tail(sorted), s, largestFirst)

RECURSIVE SortBySize(_, _, _)
SortBySize(sorted, rest, largestFirst) ==
  IF rest = <<>> THEN sorted
  ELSE SortBySize(InsertBySize(sorted, Head(rest), largestFirst), Tail(rest), largestFirst)

RECURSIVE AddAll(_, _)
AddAll(union, sets) ==
  IF sets = <<>> THEN union ELSE AddAll(PushUnique(union, Head(sets)), Tail(sets))

\* setOR with a plausible slip: only the largest set is kept
SetOR_firstOnly(sets) ==
  IF Len(sets) = 0 THEN <<>> ELSE SortBySize(<<>>, sets, TRUE)[1]

\* setOR(...sets): none -> empty, one -> that set, else the largest set with
\* the elements of the others added
SetOR(sets) ==
  IF Len(sets) = 0 THEN <<>>
  ELSE IF Len(sets) = 1 THEN sets[1]
  ELSE LET sorted == SortBySize(<<>>, sets, TRUE)
       IN AddAll(sorted[1], Tail(sorted))

\* setAND with a plausible slip: union instead of intersection
SetAND_union(sets) == AddAll(<<>>, sets)

\* setAND(...sets): none -> empty, one -> that set, else the elements of the
\* smallest set that every other set has
SetAND(sets) ==
  IF Len(sets) = 0 THEN <<>>
  ELSE IF Len(sets) = 1 THEN sets[1]
  ELSE LET sorted == SortBySize(<<>>, sets, FALSE)
       IN FilterSeq(sorted[1], {e \in Range(sorted[1]) :
                                  \A j \in 2..Len(sorted) : Includes(sorted[j], e)})

-----------------------------------------------------------------------------
(* lib/loincUtils.js: the part index.  loincToParts is modelled as the     *)
(* sequence of its entries in insertion order (the order of the table).    *)

\* Object.keys(loincToParts)
LoincNums(l2p) == [i \in 1..Len(l2p) |-> l2p[i].LOINC_NUM]

\* !!loincToParts[loinc]
HasLoinc(l2p, loinc) == \E i \in 1..Len(l2p) : l2p[i].LOINC_NUM = loinc

\* loincToParts[loinc]
LoincEntry(l2p, loinc) == l2p[CHOOSE i \in 1..Len(l2p) : l2p[i].LOINC_NUM = loinc]

\* The property key a part list turns into: String([]) = '', String([v]) = v,
\* and the elements joined by ',' otherwise.
RECURSIVE JoinComma(_)
JoinComma(list) ==
  IF Len(list) = 0 THEN Empty
  ELSE IF Len(list) = 1 THEN list[1]
  ELSE list[1] \o <<",">> \o JoinComma(Tail(list))

\* the identifiers added, in table order, to partIndexes[pt][partName]
RECURSIVE LoincsUnder(_, _, _)
LoincsUnder(l2p, pt, partName) ==
  IF l2p = <<>> THEN <<>>
  ELSE (IF JoinComma(Head(l2p)[pt]) = partName THEN <<Head(l2p).LOINC_NUM>> ELSE <<>>)
         \o LoincsUnder(Tail(l2p), pt, partName)

\* buildLoincPartsIndex with a plausible slip: entries without a value for the
\* part type are left out of the index
BuildIndex_skipEmpty(l2p) ==
  [pt \in PartTypes |->
     LET names == {JoinComma(l2p[i][pt]) : i \in 1..Len(l2p)} \ {Empty}
     IN [n \in names |-> LoincsUnder(l2p, pt, n)]]

\* buildLoincPartsIndex(loincToParts)
buildLoincPartsIndex(l2p) ==
  [pt \in PartTypes |->
     LET names == {JoinComma(l2p[i][pt]) : i \in 1..Len(l2p)}
     IN [n \in names |-> LoincsUnder(l2p, pt, n)]]

\* partIndexes[partType][partName] || new Set()
IndexLookup(partIndexes, partType, partName) ==
  IF partName \in DOMAIN partIndexes[partType] THEN partIndexes[partType][partName] ELSE <<>>

\* The entries of the constraint map in key order (Object.entries): the map is
\* a sequence of <<partType, partNames>> pairs.
getLoincForPartsInternal(partIndexes, partTypeNames) ==
  LET toAND == [k \in 1..Len(partTypeNames) |->
                  LET partType == partTypeNames[k][1]
                      partNames == partTypeNames[k][2]
                      toOR == [j \in 1..Len(partNames) |->
                                 IndexLookup(partIndexes, partType, partNames[j])]
                  IN SetOR(toOR)]
  IN SetAND(toAND)

\* loincUtils.hasLoincWithPart
hasLoincWithPart(partIndexes, partType, partName) ==
  partName \in DOMAIN partIndexes[partType]

-----------------------------------------------------------------------------
(* Bounds of the model                                                     *)

\* number of catalog entries in the index specification
IndexLoincs == 3

\* longest list of allowed part names in a query of the index specification
MaxNames == 2

-----------------------------------------------------------------------------
(* Catalog entries                                                         *)

\* a part list holding one single-token part name / no part name
One(tok) == <<T(tok)>>

None == <<>>

\* One row of loincToParts (getLoincTableUtil): the four copied fields and a
\* list of zero or one part name per part type.
Entry(num, name, cls, comp, prop, time, sys, scale, method, status, exUnits) ==
  [LOINC_NUM |-> T(num), LONG_COMMON_NAME |-> name, STATUS |-> T(status),
   EXAMPLE_UCUM_UNITS |-> exUnits,
   CLASS |-> cls, COMPONENT |-> comp, PROPERTY |-> prop, TIME |-> time,
   SYSTEM |-> sys, SCALE |-> scale, METHOD |-> method]

-----------------------------------------------------------------------------
(* The index specification: a catalog drawn from a pool of entry profiles, *)
(* indexed once, then queried.                                             *)

IndexIdList == <<"L1", "L2", "L3", "L4", "L5">>

\* the part lists an entry of the drawn catalog may have
IndexProfiles ==
  { [CLASS |-> One("CHEM"), COMPONENT |-> One("Glucose"), PROPERTY |-> One("MCnc"),
     TIME |-> One("Pt"), SYSTEM |-> One("Ser"), SCALE |-> One("Qn"), METHOD |-> None],
    [CLASS |-> One("CHEM"), COMPONENT |-> One("Glucose"), PROPERTY |-> One("MCnc"),
     TIME |-> One("Pt"), SYSTEM |-> None, SCALE |-> One("Qn"), METHOD |-> One("Test strip")],
    [CLASS |-> One("UA"), COMPONENT |-> One("Glucose"), PROPERTY |-> None,
     TIME |-> None, SYSTEM |-> One("Urine"), SCALE |-> None, METHOD |-> None] }

\* part names asked for, per part type: names some profile has, the empty
\* name, and one name no profile has
QueryNames(pt) ==
  UNION {Range(p[pt]) : p \in IndexProfiles} \cup {Empty}
    \cup (IF pt \in {"PROPERTY", "SYSTEM"} THEN {T("Other")} ELSE {})

ListsUpTo(S, n) == UNION {[1..k -> S] : k \in 0..n}

\* constraint maps handed to getLoincForParts: one part type with one name
\* (all seven types), and PROPERTY and/or SYSTEM with lists of names
IndexQueries ==
  {<< <<pt, <<v>>>> >> : pt \in PartTypes, v \in UNION {QueryNames(t) : t \in PartTypes}}
  \cup {<< <<"PROPERTY", a>> >> : a \in ListsUpTo(QueryNames("PROPERTY"), MaxNames)}
  \cup {<< <<"PROPERTY", a>>, <<"SYSTEM", b>> >> :
          a \in ListsUpTo(QueryNames("PROPERTY"), MaxNames),
          b \in ListsUpTo(QueryNames("SYSTEM"), MaxNames)}

NoCtx == [none |-> TRUE]

\* getLoincTableUtil: loincToParts is filled from the table, then indexed
InitIndex ==
  /\ \E cat \in [1..IndexLoincs -> IndexProfiles] :
       loincToParts = [i \in 1..IndexLoincs |->
                         cat[i] @@ [LOINC_NUM |-> T(IndexIdList[i]),
                                    LONG_COMMON_NAME |-> <<"name of", IndexIdList[i]>>,
                                    STATUS |-> T("ACTIVE"), EXAMPLE_UCUM_UNITS |-> Empty]]
  /\ loincPartIndexex = buildLoincPartsIndex(loincToParts)
  /\ pcnRows = <<>>
  /\ pc = "indexed"
  /\ rowNum = 0
  /\ pass = 0
  /\ qParts = <<>>
  /\ qResult = <<>>
  /\ mCtx = NoCtx
  /\ mStatus = <<>>
  /\ sIn = NoCtx
  /\ sOut = <<>>
  /\ hist = <<>>

\* loincTableUtil.getLoincForParts(partTypeNames)
GetLoincForParts ==
  /\ pc = "indexed"
  /\ \E q \in IndexQueries :
       /\ qParts' = q
       /\ qResult' = getLoincForPartsInternal(loincPartIndexex, q)
  /\ pc' = "queried"
  /\ UNCHANGED <<loincToParts, loincPartIndexex, pcnRows, rowNum, pass, mCtx, mStatus,
                 sIn, sOut, hist>>

\* the caller iterates over the returned set and goes on
ConsumeLoincs ==
  /\ pc = "queried"
  /\ pc' = "indexed"
  /\ qParts' = <<>>
  /\ qResult' = <<>>
  /\ UNCHANGED <<loincToParts, loincPartIndexex, pcnRows, rowNum, pass, mCtx, mStatus,
                 sIn, sOut, hist>>

NextIndex == GetLoincForParts \/ ConsumeLoincs

SpecIndex == InitIndex /\ [][NextIndex]_vars

\* the catalog entry holds part name v for the part type (no part name when v
\* is the empty name)
HoldsPart(entry, pt, v) ==
  IF v = Empty THEN entry[pt] = <<>> ELSE entry[pt] = <<v>>

\* the identifiers of the catalog entries that satisfy a condition
LoincsWhere(l2p, ok(_)) == {l2p[i].LOINC_NUM : i \in {k \in 1..Len(l2p) : ok(l2p[k])}}

IsSingleQuery == Len(qParts) = 1 /\ Len(qParts[1][2]) = 1

\* C1: for every part type and every part name v (the empty name standing for
\* an absent part), getLoincForParts({type: [v]}) over the built index returns
\* exactly the catalog identifiers whose entry holds v for that type.
C1_SingleQueryExact ==
  (pc = "queried" /\ IsSingleQuery) =>
     /\ NoDup(qResult)
     /\ Range(qResult) =
          LoincsWhere(loincToParts, LAMBDA e : HoldsPart(e, qParts[1][1], qParts[1][2][1]))

\* a single-name query for the empty name answered with some, not all, entries
C1_Witness ==
  /\ pc = "queried" /\ IsSingleQuery
  /\ qParts[1][2][1] = Empty
  /\ qResult # <<>> /\ Len(qResult) < Len(loincToParts)

\* C2: a query with at least one part type returns the entries that, for
\* every listed type, hold one of the names allowed for it (OR within a type,
\* AND across types; a name without index entry adds nothing), and the index
\* still mirrors the catalog after the query.
C2_AndOfOr ==
  (pc = "queried" /\ Len(qParts) >= 1) =>
     /\ NoDup(qResult)
     /\ Range(qResult) =
          LoincsWhere(loincToParts,
                      LAMBDA e : \A k \in 1..Len(qParts) :
                                   \E j \in 1..Len(qParts[k][2]) :
                                      HoldsPart(e, qParts[k][1], qParts[k][2][j]))
     /\ \A pt \in PartTypes :
          /\ \A i \in 1..Len(loincToParts) :
                JoinComma(loincToParts[i][pt]) \in DOMAIN loincPartIndexex[pt]
          /\ \A n \in DOMAIN loincPartIndexex[pt] :
                /\ NoDup(loincPartIndexex[pt][n])
                /\ Range(loincPartIndexex[pt][n]) =
                     LoincsWhere(loincToParts, LAMBDA e : HoldsPart(e, pt, n))

\* a two-type query with two names each, one of them not indexed, whose answer
\* is neither empty nor one of the two per-type unions
C2_Witness ==
  /\ pc = "queried" /\ Len(qParts) = 2
  /\ Len(qParts[1][2]) = 2 /\ Len(qParts[2][2]) = 2
  /\ \E k \in 1..2 : \E j \in 1..2 : qParts[k][2][j] \notin DOMAIN loincPartIndexex[qParts[k][1]]
  /\ qResult # <<>>
  /\ \A k \in 1..2 :
        Range(qResult) # UNION {Range(IndexLookup(loincPartIndexex, qParts[k][1], qParts[k][2][j])) :
                                  j \in 1..2}

-----------------------------------------------------------------------------
(* lib/loincPartSynonyms.js                                                *)

partSynonyms ==
  [SYSTEM |-> << <<T("Ser"), T("Plas"), T("Ser/Plas")>>,
                 <<T("Bld"), T("Ser/Plas/Bld")>>,
                 <<T("xxxx-1"), T("xxxxx-2")>> >>]

\* partSynonymsMap[partType][partName] || [] : the group the name is in
getPartSynonyms(partType, partName) ==
  IF partType \in DOMAIN partSynonyms
       /\ \E g \in 1..Len(partSynonyms[partType]) : Includes(partSynonyms[partType][g], partName)
  THEN partSynonyms[partType][CHOOSE g \in 1..Len(partSynonyms[partType]) :
                                 Includes(partSynonyms[partType][g], partName)]
  ELSE <<>>

RECURSIVE AddSynonymsFrom(_, _, _, _)
AddSynonymsFrom(partType, partNames, i, len) ==
  IF i > len THEN partNames
  ELSE AddSynonymsFrom(partType, PushUnique(partNames, getPartSynonyms(partType, partNames[i])),
                       i + 1, len)

\* addPartSynonyms with a plausible slip: the synonyms are not added
AddPartSynonyms_none(partType, partNames) == partNames

\* addPartSynonyms(partType, partNames): the list after the in-place pushes
addPartSynonyms(partType, partNames) ==
  IF partType \notin DOMAIN partSynonyms THEN partNames
  ELSE AddSynonymsFrom(partType, partNames, 1, Len(partNames))

-----------------------------------------------------------------------------
(* pcornetValidationMgr.partsCompatible                                    *)

bothInList(plist, p1, p2) == Includes(plist, p1) /\ Includes(plist, p2)

\* partsCompatible without the special SYSTEM/SCALE lists: same name or
\* synonyms only
PartsCompatible_strict(partType, p1, p2, lnClass) ==
  \/ p1 = p2
  \/ (Truthy(p1) /\ Truthy(p2)
      /\ (Includes(getPartSynonyms(partType, p1), p2) \/ Includes(getPartSynonyms(partType, p2), p1)))

\* partsCompatible(partType, p1, p2, row); lnClass is row.CLASS || ''
partsCompatible(partType, p1, p2, lnClass) ==
  IF p1 = p2 \/ (~Truthy(p1) /\ ~Truthy(p2)) THEN TRUE
  ELSE IF ~Truthy(p1) \/ ~Truthy(p2) THEN FALSE
  ELSE IF partType = "SCALE" /\ bothInList(<<T("Qn"), T("OrdQn")>>, p1, p2) THEN TRUE
  ELSE IF partType = "SYSTEM"
          /\ \/ (lnClass = T("UA") /\ bothInList(<<T("Urine"), T("Urine sed")>>, p1, p2))
             \/ (lnClass = T("COAG") /\ bothInList(<<T("PPP"), T("Plas"), T("Ser/Plas")>>, p1, p2))
             \/ bothInList(<<T("Ser"), T("Plas"), T("Ser/Plas"), T("Ser/Plas/Bld")>>, p1, p2)
             \/ bothInList(<<T("Urine"), T("Urine+Ser"), T("Urine+Ser/Plas")>>, p1, p2)
             \/ bothInList(<<T("CSF"), T("Ser+CSF"), T("Ser/Plas+CSF")>>, p1, p2)
       THEN TRUE
  ELSE Includes(getPartSynonyms(partType, p1), p2) \/ Includes(getPartSynonyms(partType, p2), p1)

-----------------------------------------------------------------------------
(* The catalog and the unit tables the pipeline is run with.  Part names   *)
(* and components are split into tokens at '/', at the component modifiers *)
(* ('.free', ...) and at the suffixes the matcher looks for (' actual',    *)
(* ' crystals', ...), so that equal strings have equal token sequences.    *)

Slash == "/"

\* loincToParts as built by getLoincTableUtil from the table
LoincTable ==
  << Entry("2345-7", T("Glucose SerPl-mCnc"), One("CHEM"), One("Glucose"), One("MCnc"), One("Pt"),
           One("Ser/Plas"), One("Qn"), None, "ACTIVE", <<"mg", Slash, "dL">>),
     Entry("2350-7", T("Glucose Ur-mCnc"), One("CHEM"), One("Glucose"), One("MCnc"), One("Pt"),
           One("Urine"), One("Qn"), None, "ACTIVE", <<"mg", Slash, "dL">>),
     Entry("5792-7", T("Glucose Ur Strip-mCnc"), One("UA"), One("Glucose"), One("MCnc"), One("Pt"),
           One("Urine"), One("Qn"), One("Test strip"), "ACTIVE", <<"mg", Slash, "dL">>),
     Entry("2339-0", T("Glucose Bld-mCnc"), One("CHEM"), One("Glucose"), One("MCnc"), One("Pt"),
           One("Bld"), One("Qn"), None, "ACTIVE", <<"mg", Slash, "dL">>),
     Entry("74774-1", T("Glucose SerPlBld-mCnc"), One("CHEM"), One("Glucose"), One("MCnc"), One("Pt"),
           One("Ser/Plas/Bld"), One("Qn"), None, "ACTIVE", <<"mg", Slash, "dL">>),
     Entry("21305-8", T("Glucose 24h Ur-mRate"), One("CHEM"), One("Glucose"), One("MRat"), <<<<"24", "H">>>>,
           One("Urine"), One("Qn"), None, "ACTIVE", <<"mg", Slash, "(24.h)">>),
     Entry("14749-6", T("Glucose SerPl-sCnc"), One("CHEM"), One("Glucose"), One("SCnc"), One("Pt"),
           One("Ser/Plas"), One("Qn"), None, "ACTIVE", <<"mmol", Slash, "L">>),
     Entry("2349-9", T("Glucose Ur Ql"), One("CHEM"), One("Glucose"), One("PrThr"), One("Pt"),
           One("Urine"), One("Ord"), None, "ACTIVE", Empty),
     Entry("2341-6", T("Glucose XXX-mCnc"), One("CHEM"), One("Glucose"), One("MCnc"), One("Pt"),
           One("XXX"), One("Qn"), None, "ACTIVE", <<"mg", Slash, "dL">>),
     Entry("2342-4", T("Glucose CSF-mCnc"), One("CHEM"), One("Glucose"), One("MCnc"), One("Pt"),
           One("CSF"), One("Qn"), None, "ACTIVE", <<"mg", Slash, "dL">>),
     Entry("25428-4", T("Glucose Ur Strip.auto-mCnc"), One("UA"), One("Glucose"), One("MCnc"), One("Pt"),
           One("Urine"), One("Qn"), One("Test strip.automated"), "DEPRECATED", <<"mg", Slash, "dL">>),
     Entry("2986-8", T("Testost SerPl-mCnc"), One("CHEM"), One("Testosterone"), One("MCnc"), One("Pt"),
           One("Ser/Plas"), One("Qn"), None, "ACTIVE", <<"ng", Slash, "dL">>),
     Entry("2991-8", T("Testost Free SerPl-mCnc"), One("CHEM"), <<<<"Testosterone", ".free">>>>,
           One("MCnc"), One("Pt"), One("Ser/Plas"), One("Qn"), None, "DISCOURAGED",
           <<"ng", Slash, "dL">>),
     Entry("2502-3", T("Iron Satn MFr SerPl"), One("CHEM"), One("Iron saturation"), One("MFr"), One("Pt"),
           One("Ser/Plas"), One("Qn"), None, "ACTIVE", T("%")),
     Entry("770-8", T("Neutrophils/leuk NFr Bld Auto"), One("HEM/BC"),
           <<<<"Neutrophils", Slash, "100 leukocytes">>>>, One("NFr"), One("Pt"), One("Bld"),
           One("Qn"), One("Automated count"), "ACTIVE", T("%")),
     Entry("751-8", T("Neutrophils # Bld Auto"), One("HEM/BC"), One("Neutrophils"), One("NCnc"),
           One("Pt"), One("Bld"), One("Qn"), One("Automated count"), "ACTIVE",
           <<"10*3", Slash, "uL">>),
     Entry("5821-4", T("WBC #/area UrnS HPF"), One("UA"), One("Leukocytes"), One("Naric"), One("Pt"),
           One("Urine sed"), One("Qn"), <<<<"Microscopy.light.", "HPF">>>>, "ACTIVE",
           <<Slash, "[", "HPF", "]">>),
     Entry("46702-7", T("WBC #/area UrnS LPF"), One("UA"), One("Leukocytes"), One("Naric"), One("Pt"),
           One("Urine sed"), One("Qn"), <<<<"Microscopy.light.", "LPF">>>>, "ACTIVE",
           <<Slash, "[", "LPF", "]">>),
     Entry("3209-4", T("FVIII Act/Nor PPP"), One("COAG"),
           <<<<"Coagulation factor VIII activity", " actual", Slash, "Normal">>>>, One("RelACnc"),
           One("Pt"), One("PPP"), One("Qn"), One("Coag"), "ACTIVE", T("%")),
     Entry("3208-6", T("FVIII Act PPP"), One("COAG"), One("Coagulation factor VIII activity"),
           One("ACnc"), One("Pt"), One("PPP"), One("Qn"), One("Coag"), "ACTIVE", T("%")),
     Entry("8117-4", T("CD10 Cells NFr Bld"), One("CELLMARK"),
           <<<<"Cells.CD", "10", Slash, "100 cells">>>>, One("NFr"), One("Pt"), One("Bld"),
           One("Qn"), None, "ACTIVE", T("%")),
     Entry("1754-1", T("Albumin Ur-mCnc"), One("CHEM"), One("Albumin"), One("MCnc"), One("Pt"),
           One("Urine"), One("Qn"), None, "ACTIVE", <<"mg", Slash, "dL">>),
     Entry("14958-3", T("Albumin/Creat 24h Ur-sRto"), One("CHEM"),
           <<<<"Albumin", Slash, "Creatinine">>>>, One("SRto"), One("Pt"), One("Urine"),
           One("Qn"), None, "ACTIVE", <<"mmol", Slash, "mol">>),
     Entry("26499-4", T("Neutrophils # Bld"), One("HEM/BC"), One("Neutrophils"), One("NCnc"),
           One("Pt"), One("Bld"), One("Qn"), None, "ACTIVE", <<"10*3", Slash, "uL">>),
     Entry("753-4", T("Neutrophils # Bld Manual"), One("HEM/BC"), One("Neutrophils"), One("NCnc"),
           One("Pt"), One("Bld"), One("Qn"), One("Manual count"), "ACTIVE",
           <<"10*3", Slash, "uL">>),
     Entry("15074-8", T("Glucose Bld-sCnc"), One("CHEM"), One("Glucose"), One("SCnc"), One("Pt"),
           One("Bld"), One("Qn"), None, "ACTIVE", <<"mmol", Slash, "L">>),
     Entry("14744-7", T("Glucose XXX-sCnc"), One("CHEM"), One("Glucose"), One("SCnc"), One("Pt"),
           One("XXX"), One("Qn"), None, "DEPRECATED", <<"mmol", Slash, "L">>) >>

\* ucumMapperMgr.mapToUcum(unit, {loinc}).ucum || ...isCI...ucum || '': the
\* unit normalizer is a collaborator, given here as its table for the units
\* of the model
UcumTable ==
  << << <<"mg", Slash, "dL">>, <<"mg", Slash, "dL">> >>,
     << <<"mg", Slash, "24", " ", "hr">>, <<"mg", Slash, "(24.h)">> >>,
     << <<Slash, "HPF">>, <<Slash, "[", "HPF", "]">> >>,
     << <<Slash, "LPF">>, <<Slash, "[", "LPF", "]">> >>,
     << T("%"), T("%") >>,
     << <<"mmol", Slash, "mol">>, <<"mmol", Slash, "mol">> >>,
     << <<"10*3", Slash, "uL">>, <<"10*3", Slash, "uL">> >>,
     << <<"mmol", Slash, "L">>, <<"mmol", Slash, "L">> >> >>

mapToUcum(unit) ==
  IF \E i \in 1..Len(UcumTable) : UcumTable[i][1] = unit
  THEN UcumTable[CHOOSE i \in 1..Len(UcumTable) : UcumTable[i][1] = unit][2]
  ELSE Empty

\* unitToPropertiesMap of loadUnitToPropertiesMapping, given as its table
UnitPropertiesTable ==
  << << <<"mg", Slash, "dL">>, <<T("MCnc")>> >>,
     << <<"mg", Slash, "(24.h)">>, <<T("MRat")>> >>,
     << <<Slash, "[", "HPF", "]">>, <<T("Naric")>> >>,
     << <<Slash, "[", "LPF", "]">>, <<T("Naric")>> >>,
     << T("%"), <<T("NFr"), T("MFr"), T("RelACnc"), T("ACnc")>> >>,
     << <<"mmol", Slash, "mol">>, <<T("SRto")>> >>,
     << <<"10*3", Slash, "uL">>, <<T("NCnc")>> >>,
     << <<"mmol", Slash, "L">>, <<T("SCnc")>> >> >>

\* getUnitProperties(unit): unit && unitToPropertiesMap[unit] || []
getUnitProperties(unit) ==
  IF \E i \in 1..Len(UnitPropertiesTable) : UnitPropertiesTable[i][1] = unit
  THEN UnitPropertiesTable[CHOOSE i \in 1..Len(UnitPropertiesTable) : UnitPropertiesTable[i][1] = unit][2]
  ELSE <<>>

\* propsByClass[CLASS] built by getFuncForPctUnitPropertiesByClass: the
\* properties of '%' that entries of the class have, in table order
RECURSIVE PctPropsOfClass(_, _)
PctPropsOfClass(table, lnClass) ==
  IF table = <<>> THEN <<>>
  ELSE LET e == Head(table)
           rest == PctPropsOfClass(Tail(table), lnClass)
       IN IF First(e.CLASS) = lnClass /\ Includes(getUnitProperties(T("%")), First(e.PROPERTY))
          THEN PushUnique(<<First(e.PROPERTY)>>, rest)
          ELSE rest

\* getPctUnitPropertiesByClass(lnClass): propsByClass[lnClass] || [], with
\* 'ACnc' taken out of the COAG list
getPctUnitPropertiesByClass(l2p, lnClass) ==
  IF lnClass = T("COAG")
  THEN FilterSeq(PctPropsOfClass(l2p, lnClass), Range(PctPropsOfClass(l2p, lnClass)) \ {T("ACnc")})
  ELSE PctPropsOfClass(l2p, lnClass)

-----------------------------------------------------------------------------
(* lib/labNameParser.js: the extraction framework.  A raw lab name is the  *)
(* sequence of its words; every test the code makes on a name ignores case,*)
(* so the words are written case-folded (upper case).                      *)

\* case folding (toUpperCase / toLowerCase / flag i) of a word: the words of
\* the model are written folded except the ones listed here
FoldTable ==
  << <<"Bld", "BLD">>, <<"bld", "BLD">>, <<"Urine", "URINE">>, <<"urine", "URINE">>,
     <<"Ser/Plas", "SER/PLAS">>, <<"ser/plas", "SER/PLAS">>, <<"Ser", "SER">>, <<"Csf", "CSF">> >>

Fold(tok) ==
  IF \E i \in 1..Len(FoldTable) : FoldTable[i][1] = tok
  THEN FoldTable[CHOOSE i \in 1..Len(FoldTable) : FoldTable[i][1] = tok][2]
  ELSE tok

FoldText(text) == [i \in 1..Len(text) |-> Fold(text[i])]

\* a configuration entry as written in the source; an absent pattern is the
\* empty list, an absent partName / selector / unless is the empty text;
\* regex and extract tell whether the entry brings its own (custom: both)
RawRule(pattern, patternIsString, partName, mapToClass, unless, selector, custom) ==
  [pattern |-> pattern, patternIsString |-> patternIsString, partName |-> partName,
   mapToClass |-> mapToClass, unless |-> unless, selector |-> selector,
   regex |-> custom, extract |-> custom]

\* pattern: [...] , partName: ...
P(patterns, partName) == RawRule(patterns, FALSE, partName, <<>>, "", "", FALSE)

\* ... with mapToClass
PC(patterns, partName, mapToClass) == RawRule(patterns, FALSE, partName, mapToClass, "", "", FALSE)

\* the 32 specimenExtractors
specimenExtractorsConfig ==
  << P(<< <<"CSF">>, <<"CEREBROSPINAL", "FLUID">> >>, T("CSF")),
     PC(<< <<"URINE">>, <<"UA">>, <<"UR">>, <<"URN">> >>, T("Urine"), << <<"!", "ALLERGY">> >>),
     P(<< <<"SALIVA">>, <<"ORAL", "FLD">>, <<"ORAL", "FLUID">> >>, T("Saliva")),
     PC(<< <<"PLASMA">>, <<"PLAS">> >>, T("Ser/Plas"), << <<"!", "CELLMARK">>, <<"!", "HEM/BC">> >>),
     PC(<< <<"RED", "BLOOD", "CELL">>, <<"RED", "BLOOD", "CELLS">>, <<"RBC">>, <<"RBCS">> >>,
        T("RBC"), << <<"CHEM">>, <<"DRUG/TOX">> >>),
     PC(<< <<"WHITE", "BLOOD", "CELL">>, <<"WHITE", "BLOOD", "CELLS">>, <<"WBC">> >>, T("WBC"),
        << <<"NEVER">> >>),
     PC(<< <<"LEUKOCYTE">>, <<"LEUKOCYTES">>, <<"LEUCOCYTE">>, <<"LEUCOCYTES">> >>, T("WBC"),
        << <<"CHEM">> >>),
     RawRule(<< <<"PLATELET">>, <<"PLATELETS">> >>, FALSE, T("Platelets"), << <<"NEVER">> >>,
             "(poor|rich) plasma", "", FALSE),
     RawRule(<< <<"Bld">> >>, TRUE, Empty, <<>>, "", "", FALSE),
     RawRule(<< <<"WHOLE", "BLOOD">> >>, TRUE, T("Bld"), <<>>, "", "", FALSE),
     P(<< <<"STOOL">>, <<"FECES">>, <<"FECAL">> >>, T("Stool")),
     RawRule(<< <<"SERUM">> >>, TRUE, T("Ser/Plas"), <<>>, "", "", FALSE),
     RawRule(<< <<"TISSUE">> >>, TRUE, T("Tiss"), <<>>, "", "", FALSE),
     RawRule(<< <<"PLEURAL", "FLUID">> >>, TRUE, T("Plr fld"), <<>>, "", "", FALSE),
     RawRule(<< <<"PERICARDIAL", "FLUID">> >>, TRUE, T("Pericard fld"), <<>>, "", "", FALSE),
     RawRule(<< <<"PERITONEAL", "FLUID">> >>, TRUE, T("Periton fld"), <<>>, "", "", FALSE),
     RawRule(<< <<"DIALYSIS", "FLUID">> >>, TRUE, T("Dial fld"), <<>>, "", "", FALSE),
     PC(<< <<"BODY", "FLUID">>, <<"BODY", "FLD">> >>, T("Body fld"), << <<"!", "UA">> >>),
     P(<< <<"AMNIOTIC", "FLUID">>, <<"AMNIO", "FLD">> >>, T("Amnio fld")),
     RawRule(<< <<"FLUID">> >>, FALSE, T("Body fld"), << <<"!", "UA">> >>, "influenz", "", FALSE),
     RawRule(<< <<"FLD">> >>, FALSE, T("Body fld"), << <<"!", "UA">> >>, "(flu|influenz)", "", FALSE),
     RawRule(<< <<"ADRENAL", "VEIN">> >>, TRUE, T("Adrenal vein"), <<>>, "", "", FALSE),
     RawRule(<< <<"RENAL", "VEIN">> >>, TRUE, T("Renal vein"), <<>>, "", "", FALSE),
     P(<< <<"DBS">>, <<"DRIED", "BLOOD", "SPOT">> >>, T("Bld.dot")),
     RawRule(<< <<"HAIR">> >>, TRUE, T("Hair"), <<>>, "(animal|horse|cow)", "", FALSE),
     RawRule(<< <<"BREATH">> >>, TRUE, T("Exhl gas"), <<>>, "", "", FALSE),
     P(<< <<"INFERIOR", "VENA", "CAVA">>, <<"IVC">> >>, T("Vena cava.inferior")),
     P(<< <<"RIGHT", "ADRENAL", "VEIN">>, <<"R", "ADRENAL", "VEIN">> >>, T("Adrenal vein.right")),
     P(<< <<"LEFT", "ADRENAL", "VEIN">>, <<"L", "ADRENAL", "VEIN">> >>, T("Adrenal vein.left")),
     P(<< <<"BLOOD", "CAPILLARY">>, <<"CAPILLARY", "BLOOD">> >>, T("BldC")),
     RawRule(<< <<"SEMEN">> >>, TRUE, T("Semen"), <<>>, "", "", FALSE),
     RawRule(<< <<"POC">> >>, TRUE, T("Bld"), << <<"NEVER">> >>, "", "", FALSE) >>

\* the 3 timeExtractors; the last one has its own regex and extract()
timeExtractorsConfig ==
  << RawRule(<< <<"RANDOM">> >>, TRUE, T("Pt"), <<>>, "", "RAW_LAB_NAME", FALSE),
     RawRule(<< <<"SPOT">> >>, TRUE, T("Pt"), << <<"NEVER">> >>, "", "RAW_LAB_NAME", FALSE),
     RawRule(<<>>, FALSE, T("N/A"), <<>>, "", "RAW_UNIT", TRUE) >>

\* the mapper with the second check left out: an entry without partName goes
\* through whatever its pattern is
defaultLoincPartExtractionConfigMapper_oneCheck(partType, raw) ==
  IF ~raw.regex /\ raw.pattern = <<>> THEN [error |-> TRUE]
  ELSE [error |-> FALSE, type |-> partType,
        partName |-> IF raw.partName # Empty THEN raw.partName
                     ELSE IF raw.pattern # <<>> THEN raw.pattern[1] ELSE Empty,
        pattern |-> raw.pattern, unless |-> raw.unless, selector |-> raw.selector,
        regex |-> IF raw.regex THEN "own" ELSE "generated",
        extract |-> IF raw.extract THEN "own" ELSE "default",
        mapToClassExcl |-> <<>>, mapToClassIncl |-> <<>>]

\* defaultLoincPartExtractionConfigMapper(partType, rawRuleConfig): the
\* extractor entry, or the error it throws; regex is the entry's own or the
\* one generated from the pattern, extract the entry's own or the default
defaultLoincPartExtractionConfigMapper(partType, raw) ==
  IF ~raw.regex /\ raw.pattern = <<>> THEN [error |-> TRUE]
  ELSE IF raw.partName = Empty /\ (raw.pattern = <<>> \/ ~raw.patternIsString) THEN [error |-> TRUE]
  ELSE [error |-> FALSE, type |-> partType,
        partName |-> IF raw.partName # Empty THEN raw.partName ELSE raw.pattern[1],
        pattern |-> raw.pattern, unless |-> raw.unless, selector |-> raw.selector,
        regex |-> IF raw.regex THEN "own" ELSE "generated",
        extract |-> IF raw.extract THEN "own" ELSE "default",
        mapToClassExcl |-> IF raw.mapToClass # <<>> /\ raw.mapToClass[1][1] = "!"
                           THEN [k \in 1..Len(raw.mapToClass) |-> Tail(raw.mapToClass[k])]
                           ELSE <<>>,
        mapToClassIncl |-> IF raw.mapToClass # <<>> /\ raw.mapToClass[1][1] # "!"
                           THEN raw.mapToClass ELSE <<>>]

specimenExtractors ==
  [i \in 1..Len(specimenExtractorsConfig) |->
     defaultLoincPartExtractionConfigMapper("SYSTEM", specimenExtractorsConfig[i])]

timeExtractors ==
  [i \in 1..Len(timeExtractorsConfig) |->
     defaultLoincPartExtractionConfigMapper("TIME", timeExtractorsConfig[i])]

\* words of the model that start with 'flu' / 'influenz', name an animal
FluWords == {"FLU", "FLUID", "FLUORIDE"}

InfluenzWords == {"INFLUENZA", "INFLUENZAE"}

AnimalWords == {"ANIMAL", "HORSE", "COW"}

\* rule.unless.test(text)
UnlessTest(unless, text) ==
  CASE unless = "(poor|rich) plasma" ->
         Contains(text, <<"POOR", "PLASMA">>) \/ Contains(text, <<"RICH", "PLASMA">>)
    [] unless = "influenz" -> \E i \in 1..Len(text) : text[i] \in InfluenzWords
    [] unless = "(flu|influenz)" -> \E i \in 1..Len(text) : text[i] \in FluWords \cup InfluenzWords
    [] unless = "(animal|horse|cow)" -> \E i \in 1..Len(text) : text[i] \in AnimalWords
    [] OTHER -> FALSE

\* toFilterOut(rule, text, row)
toFilterOut(rule, text, lnClass) ==
  \/ (rule.mapToClassIncl # <<>> /\ ~Includes(rule.mapToClassIncl, lnClass))
  \/ (rule.mapToClassExcl # <<>> /\ Includes(rule.mapToClassExcl, lnClass))
  \/ UnlessTest(rule.unless, text)

NumberWords == {"24", "12", "10", "100", "12345"}

HourWords == {"h", "hr", "hrs", "hour", "hours", "H", "HR", "HRS", "HOUR", "HOURS"}

\* the text without its blanks
Squeeze(text) == FilterSeq(text, Range(text) \ {" "})

\* unit.match(this.regex) for the regex of the RAW_UNIT time extractor,
\* /\/\s*([0-9]+)\s*(h|hr|hrs|hour|hours)\s*$/i: the groups, or none
UnitTimeMatch(unit) ==
  LET u == Squeeze(unit)
      n == Len(u)
  IN IF n >= 3 /\ u[n - 2] = Slash /\ u[n - 1] \in NumberWords /\ u[n] \in HourWords
     THEN << <<u[n - 1]>>, <<u[n]>> >>
     ELSE <<>>

\* text.match(this.regex) for a generated regex: group 1 of the leftmost
\* match, the first alternative winning at the same place; or none
PatternMatch(rule, text) ==
  LET hits == {k \in 1..Len(rule.pattern) : Contains(text, FoldText(rule.pattern[k]))}
      at(k) == IndexOf(text, FoldText(rule.pattern[k]))
      first == Min({k \in hits : \A j \in hits : at(k) <= at(j)})
  IN IF hits = {} THEN <<>> ELSE <<FoldText(rule.pattern[first])>>

\* rule.regex.test(text), for the generated regex \b(p1|p2|...)\b, flag i,
\* or the entry's own
RegexTest(rule, text) ==
  IF rule.regex = "own" THEN UnitTimeMatch(text) # <<>>
  ELSE \E k \in 1..Len(rule.pattern) : Contains(text, FoldText(rule.pattern[k]))

\* the extract() of the RAW_UNIT time extractor:
\* m = unit.match(this.regex); m ? m[1] + 'H' : null
extractTimeOfUnit(rule, unit) ==
  LET m == IF rule.regex = "own" THEN UnitTimeMatch(unit) ELSE PatternMatch(rule, unit)
  IN IF m # <<>> THEN m[1] \o <<"H">> ELSE Empty

\* extractor.extract(text, row): the part name, or empty for null
extract(rule, text, lnClass) ==
  IF rule.extract = "own" THEN extractTimeOfUnit(rule, text)
  ELSE IF Truthy(text) /\ RegexTest(rule, text) /\ ~toFilterOut(rule, text, lnClass)
       THEN rule.partName
       ELSE Empty

\* runExtractors with a plausible slip: stops at the first hit
RunExtractors_first(sourceValue, extractors, lnClass, selector) ==
  IF \E i \in 1..Len(extractors) :
        (selector = "" \/ extractors[i].selector = selector)
        /\ Truthy(extract(extractors[i], sourceValue, lnClass))
  THEN LET i == Min({k \in 1..Len(extractors) :
                        (selector = "" \/ extractors[k].selector = selector)
                        /\ Truthy(extract(extractors[k], sourceValue, lnClass))})
       IN <<[type |-> extractors[i].type, value |-> extract(extractors[i], sourceValue, lnClass),
             pattern |-> extractors[i].pattern]>>
  ELSE <<>>

\* runExtractors(sourceValue, extractors, row, selectors): every hit, in rule
\* order
RECURSIVE runExtractors(_, _, _, _)
runExtractors(sourceValue, extractors, lnClass, selector) ==
  IF ~Truthy(sourceValue) \/ extractors = <<>> THEN <<>>
  ELSE LET extractor == Head(extractors)
           extractedName == extract(extractor, sourceValue, lnClass)
       IN (IF (selector = "" \/ extractor.selector = selector) /\ Truthy(extractedName)
           THEN <<[type |-> extractor.type, value |-> extractedName, pattern |-> extractor.pattern]>>
           ELSE <<>>)
          \o runExtractors(sourceValue, Tail(extractors), lnClass, selector)

\* extractSpecimen(row)
extractSpecimen(row) == runExtractors(row.RAW_LAB_NAME, specimenExtractors, row.CLASS, "")

\* extractTime(sourceValue, selector, row)
extractTime(sourceValue, selector) == runExtractors(sourceValue, timeExtractors, Empty, selector)

\* entries.map(entry => entry.value)
Values(entries) == [i \in 1..Len(entries) |-> entries[i].value]

defaultSpecimenPerClass ==
  << <<T("CHEM"), T("Ser/Plas")>>, <<T("DRUG/TOX"), T("Ser/Plas")>>, <<T("HEM/BC"), T("Bld")>>,
     <<T("COAG"), T("PPP")>>, <<T("MICRO"), T("Ser")>> >>

\* getDefaultSpecimen(row): defaultSpecimenPerClass[row.CLASS], empty for
\* undefined
getDefaultSpecimen(lnClass) ==
  IF \E i \in 1..Len(defaultSpecimenPerClass) : defaultSpecimenPerClass[i][1] = lnClass
  THEN defaultSpecimenPerClass[CHOOSE i \in 1..Len(defaultSpecimenPerClass) :
                                  defaultSpecimenPerClass[i][1] = lnClass][2]
  ELSE Empty

\* componentModifiers after the map(): modifier is connector + token, nameWords
\* the word runs nameRegex finds, class the classes the entry is limited to
\* (none for 'panel')
Modifier(modifier, nameWords, class) == [modifier |-> modifier, nameWords |-> nameWords, class |-> class]

ChemDrug == <<T("CHEM"), T("DRUG/TOX")>>

componentModifiers ==
  << Modifier(".bioavailable", {<<"BIOAVAILABLE">>}, ChemDrug),
     Modifier(".bound", {<<"BOUND">>}, ChemDrug),
     Modifier(".free", {<<"FREE">>, <<"FR">>, <<"FRAGMENTS">>, <<"FRACTION">>}, ChemDrug),
     Modifier(".total", {<<"TOTAL">>}, ChemDrug),
     Modifier(".nucleated", {<<"NUCLEATED">>}, <<T("CHEM"), T("DRUG/TOX"), T("HEM/BC")>>),
     Modifier(" panel", {<<"PANEL">>}, <<>>),
     Modifier("^trough", {<<"TROUGH">>}, ChemDrug),
     Modifier("^peak", {<<"PEAK">>}, ChemDrug),
     Modifier("^post dialysis", {<<"POST", "DIALYSIS">>, <<"POST-DIALYSIS">>, <<"POSTDIALYSIS">>}, ChemDrug),
     Modifier("^pre dialysis", {<<"PRE", "DIALYSIS">>, <<"PRE-DIALYSIS">>, <<"PREDIALYSIS">>}, ChemDrug),
     Modifier("^^standard", {<<"STANDARD">>}, ChemDrug) >>

\* m.isInName(name)
isInName(m, name) == \E w \in m.nameWords : Contains(name, w)

\* m.isInComponent(component)
isInComponent(m, component) == Contains(component, T(m.modifier))

\* mappedComponent.substr(0, mappedComponent.length - m.modifier.length): the
\* component without the modifier when it ends with it, else a cut string
\* that is no part name
ChopModifier(mappedComponent, m) ==
  IF EndsWith(mappedComponent, T(m.modifier)) THEN DropLast(mappedComponent, 1)
  ELSE DropLast(mappedComponent, 1) \o <<"#cut">>

RECURSIVE ByPredefinedRules(_, _, _, _)
ByPredefinedRules(mods, rawName, mappedComponent, lnClass) ==
  IF mods = <<>> THEN [status |-> "none", component |-> Empty]
  ELSE LET m == Head(mods)
       IN IF m.class # <<>> /\ ~Includes(m.class, lnClass)
          THEN ByPredefinedRules(Tail(mods), rawName, mappedComponent, lnClass)
          ELSE IF isInName(m, rawName) /\ ~isInComponent(m, mappedComponent)
               THEN [status |-> "name", component |-> mappedComponent \o T(m.modifier)]
          ELSE IF ~isInName(m, rawName) /\ isInComponent(m, mappedComponent)
               THEN [status |-> "component", component |-> ChopModifier(mappedComponent, m)]
          ELSE IF isInName(m, rawName) /\ isInComponent(m, mappedComponent)
               THEN [status |-> "both", component |-> Empty]
          ELSE ByPredefinedRules(Tail(mods), rawName, mappedComponent, lnClass)

\* getAdjustedComponentByModifierPredefinedRules(row)
getAdjustedComponentByModifierPredefinedRules(row) ==
  IF ~Truthy(row.RAW_LAB_NAME) \/ ~Truthy(row.COMPONENT) THEN [status |-> "blank", component |-> Empty]
  ELSE ByPredefinedRules(componentModifiers, row.RAW_LAB_NAME, row.COMPONENT, row.CLASS)

\* the words /\b(IgA|IgE|IgG[1234]?|IgM)\b/i finds, with the spelling
\* extractIgX gives them
IgWords ==
  << <<"IGA", "IgA">>, <<"IGE", "IgE">>, <<"IGG", "IgG">>, <<"IGM", "IgM">>,
     <<"IgA", "IgA">>, <<"IgE", "IgE">>, <<"IgG", "IgG">>, <<"IgM", "IgM">> >>

IsIgWord(tok) == \E i \in 1..Len(IgWords) : IgWords[i][1] = tok

\* extractIgX(name), empty for null
extractIgX(name) ==
  IF \E i \in 1..Len(name) : IsIgWord(name[i])
  THEN LET tok == name[Min({i \in 1..Len(name) : IsIgWord(name[i])})]
       IN T(IgWords[CHOOSE i \in 1..Len(IgWords) : IgWords[i][1] = tok][2])
  ELSE Empty

\* getAdjustedComponentByModifierIgX(row)
getAdjustedComponentByModifierIgX(row) ==
  LET igxInName == extractIgX(row.RAW_LAB_NAME)
      igxInComp == extractIgX(row.COMPONENT)
  IN IF Truthy(igxInName) /\ Truthy(igxInComp) /\ igxInName # igxInComp
     THEN [status |-> "fixed", component |-> ReplaceFirst(row.COMPONENT, igxInComp, igxInName)]
     ELSE [status |-> "none", component |-> Empty]

\* getAdjustedComponentByModifier(row)
getAdjustedComponentByModifier(row) ==
  LET result == getAdjustedComponentByModifierPredefinedRules(row)
  IN IF Truthy(result.component) \/ result.status = "blank" THEN result
     ELSE getAdjustedComponentByModifierIgX(row)

-----------------------------------------------------------------------------
(* Data rows.  The parts of a row are texts (the empty text for '' and for *)
(* a missing field); ALGO_MAPPING_ISSUES is the list of issue tokens while *)
(* a pass runs and their '; '-joined text after it; inferred is the list   *)
(* of {part, names, types} entries in the order the parts were first added.*)

NewRow(loinc, name, unit, specimen, category) ==
  [LAB_LOINC |-> loinc, RAW_LAB_NAME |-> name, RAW_UNIT |-> unit, SPECIMEN_SOURCE |-> specimen,
   INC_CATEGORY |-> category, ROW_NUM |-> 0, LONG_COMMON_NAME |-> Empty, EX_UCUM |-> Empty,
   CLASS |-> Empty, COMPONENT |-> Empty, PROPERTY |-> Empty, TIME |-> Empty, SYSTEM |-> Empty,
   SCALE |-> Empty, METHOD |-> Empty,
   SGG_LOINC |-> Empty, SGG_LONG_COMMON_NAME |-> Empty, SGG_OTHER |-> Empty,
   inferred |-> <<>>, inferred_parts |-> Empty, parsed_parts |-> Empty, ucum_converted |-> Empty,
   ALGO_MAPPING_ISSUES |-> <<>>, ALGO_JUDGEMENT |-> "", RULE_RELAXED_BY |-> Empty,
   TARGET_TERM |-> <<>>]

\* row.inferred && row.inferred[part] && row.inferred[part].names, [] if none
InferredNames(row, part) ==
  IF \E i \in 1..Len(row.inferred) : row.inferred[i].part = part
  THEN row.inferred[CHOOSE i \in 1..Len(row.inferred) : row.inferred[i].part = part].names
  ELSE <<>>

\* addRowUpdates(row, 'ALGO_MAPPING_ISSUES', [type])
addAlgoMappingIssue(row, type) ==
  [row EXCEPT !.ALGO_MAPPING_ISSUES = PushUnique(@, <<type>>)]

RECURSIVE AddNames(_, _, _)
AddNames(info, newPartNames, inferType) ==
  IF newPartNames = <<>> THEN info
  ELSE AddNames(IF Includes(info.names, Head(newPartNames)) THEN info
                ELSE [info EXCEPT !.names = Append(@, Head(newPartNames)),
                                  !.types = Append(@, inferType)],
                Tail(newPartNames), inferType)

\* addInferredLoincParts(row, loincPart, newPartNames, inferType); every call
\* of the code passes a part type of PartTypeList and a non-empty list
addInferredLoincParts(row, loincPart, newPartNames, inferType) ==
  IF \E i \in 1..Len(row.inferred) : row.inferred[i].part = loincPart
  THEN LET i == CHOOSE k \in 1..Len(row.inferred) : row.inferred[k].part = loincPart
       IN [row EXCEPT !.inferred[i] = AddNames(@, newPartNames, inferType)]
  ELSE [row EXCEPT !.inferred =
          Append(@, AddNames([part |-> loincPart, names |-> <<>>, types |-> <<>>],
                             newPartNames, inferType))]

\* the test of addAlgoIssueAndJudgementIfPartsDisagree (absenceOK = true)
PartsDisagree(row, partType, inferredPartNames) ==
  /\ inferredPartNames # <<>>
  /\ Truthy(row[partType])
  /\ ~\E k \in 1..Len(addPartSynonyms(partType, inferredPartNames)) :
         partsCompatible(partType, addPartSynonyms(partType, inferredPartNames)[k],
                         row[partType], row.CLASS)

\* addAlgoIssueAndJudgementIfPartsDisagree with a plausible slip: the
\* judgement is assigned either way, CORRECT_aj when the parts agree
AddIssue_resetJudgement(row, partType, inferredPartNames) ==
  IF PartsDisagree(row, partType, inferredPartNames)
  THEN [addAlgoMappingIssue(row, partType) EXCEPT !.ALGO_JUDGEMENT = "INCORRECT_aj"]
  ELSE [row EXCEPT !.ALGO_JUDGEMENT = "CORRECT_aj"]

\* the same function with a plausible slip: the issue is added and the
\* judgement is left as it was
addAlgoIssueAndJudgementIfPartsDisagree_issueOnly(row, partType, inferredPartNames) ==
  IF PartsDisagree(row, partType, inferredPartNames)
  THEN addAlgoMappingIssue(row, partType)
  ELSE row

\* addAlgoIssueAndJudgementIfPartsDisagree(row, partType, inferredPartNames):
\* the row after the call (the return value is PartsDisagree)
addAlgoIssueAndJudgementIfPartsDisagree(row, partType, inferredPartNames) ==
  IF PartsDisagree(row, partType, inferredPartNames)
  THEN [addAlgoMappingIssue(row, partType) EXCEPT !.ALGO_JUDGEMENT = "INCORRECT_aj"]
  ELSE row

\* addInferredLoincParts followed by addAlgoIssueAndJudgementIfPartsDisagree
InferAndFlag(row, partType, names, inferType) ==
  addAlgoIssueAndJudgementIfPartsDisagree(addInferredLoincParts(row, partType, names, inferType),
                                          partType, names)

\* inferComponentByModifier(row)
inferComponentByModifier(row, partIndexes) ==
  LET status == getAdjustedComponentByModifier(row)
  IN IF Truthy(status.component) /\ hasLoincWithPart(partIndexes, "COMPONENT", status.component)
     THEN InferAndFlag(row, "COMPONENT", <<status.component>>, "inferred")
     ELSE row

\* sysUpper.startsWith('BLD') && sysUpper !== 'BLD': the SYSTEM names of the
\* model that start with 'Bld' and are not 'Bld'
BldSystems == {T("BldA"), T("BldV"), T("BldC"), T("Bld.dot"), T("BldCo")}

\* inferLoincSystem with a plausible slip: the parsed specimen is recorded
\* and not compared with the mapped one
InferLoincSystem_addOnly(row) ==
  LET parsed == Values(extractSpecimen(row))
      useBld == parsed = <<>> /\ row.SYSTEM \in BldSystems /\ row.CLASS = T("HEM/BC")
      inferredSystem == IF useBld THEN <<T("Bld")>> ELSE parsed
  IN IF inferredSystem # <<>>
     THEN addInferredLoincParts(row, "SYSTEM", inferredSystem, IF useBld THEN "inferred" ELSE "parsed")
     ELSE row

\* inferLoincSystem(row)
inferLoincSystem(row) ==
  LET parsed == Values(extractSpecimen(row))
      useBld == parsed = <<>> /\ row.SYSTEM \in BldSystems /\ row.CLASS = T("HEM/BC")
      inferredSystem == IF useBld THEN <<T("Bld")>> ELSE parsed
  IN IF inferredSystem # <<>>
     THEN InferAndFlag(row, "SYSTEM", inferredSystem, IF useBld THEN "inferred" ELSE "parsed")
     ELSE row

\* the properties '<x>Cnc' of the model and their rate forms '<x>Rat'
CncRat ==
  << <<T("MCnc"), T("MRat")>>, <<T("SCnc"), T("SRat")>>, <<T("NCnc"), T("NRat")>>,
     <<T("ACnc"), T("ARat")>>, <<T("RelACnc"), T("RelARat")>>, <<T("CCnc"), T("CRat")>> >>

\* p.endsWith('Cnc') / p.endsWith('Rat')
EndsWithCnc(p) == \E i \in 1..Len(CncRat) : CncRat[i][1] = p

EndsWithRat(p) == \E i \in 1..Len(CncRat) : CncRat[i][2] = p

\* p.substr(0, p.length - 3) + 'Rat' / + 'Cnc'
ToRat(p) == CncRat[CHOOSE i \in 1..Len(CncRat) : CncRat[i][1] = p][2]

ToCnc(p) == CncRat[CHOOSE i \in 1..Len(CncRat) : CncRat[i][2] = p][1]

\* inferredTime[0].match(/^[0-9]+H$/)
IsDuration(time) == Len(time) = 2 /\ time[1] \in NumberWords /\ time[2] = "H"

\* inferLoincTime(row)
inferLoincTime(row) ==
  LET mappedToProp == row.PROPERTY
      timeOfUnit == Values(extractTime(row.RAW_UNIT, "RAW_UNIT"))
      timeOfName == Values(extractTime(row.RAW_LAB_NAME, "RAW_LAB_NAME"))
      inferredTime == IF timeOfUnit # <<>> THEN timeOfUnit ELSE timeOfName
      inferredProperty ==
        IF timeOfUnit # <<>>
        THEN (IF IsDuration(timeOfUnit[1]) /\ EndsWithCnc(mappedToProp)
              THEN <<ToRat(mappedToProp)>> ELSE <<>>)
        ELSE IF timeOfName # <<>> /\ timeOfName[1] = T("Pt") /\ EndsWithRat(mappedToProp)
             THEN <<ToCnc(mappedToProp)>> ELSE <<>>
      row1 == IF inferredTime # <<>> THEN InferAndFlag(row, "TIME", inferredTime, "parsed") ELSE row
  IN IF inferredProperty # <<>> THEN InferAndFlag(row1, "PROPERTY", inferredProperty, "inferred")
     ELSE row1

\* propsOfUnits of inferAndValidate: the properties of the units, each once
RECURSIVE PropsOfUnits(_, _)
PropsOfUnits(acc, altUnits) ==
  IF altUnits = <<>> THEN acc
  ELSE PropsOfUnits(PushUnique(acc, getUnitProperties(Head(altUnits))), Tail(altUnits))

\* the same with a plausible slip: the names are added whether or not they
\* raise an issue
FlagThenInfer_always(row, partType, names) ==
  IF names # <<>>
  THEN addInferredLoincParts(addAlgoIssueAndJudgementIfPartsDisagree(row, partType, names),
                             partType, names, "inferred")
  ELSE row

\* add the inferred names only if they raise an issue
FlagThenInfer(row, partType, names) ==
  IF PartsDisagree(row, partType, names)
  THEN addInferredLoincParts(addAlgoIssueAndJudgementIfPartsDisagree(row, partType, names),
                             partType, names, "inferred")
  ELSE row

\* the same with a plausible slip: the properties of '%' are not restricted
\* to the class
inferScaleAndProperty_anyClass(row, l2p, propsOfUnits) ==
  LET isInterpretation == Contains(row.RAW_LAB_NAME, T("INTERPRETATION"))
      scale == IF isInterpretation THEN <<T("Nom"), T("Nar"), T("Ord"), T("Doc")>>
               ELSE IF Truthy(row.RAW_UNIT) THEN <<T("Qn")>> ELSE <<>>
      property == IF isInterpretation THEN <<T("Imp")>> ELSE propsOfUnits
  IN FlagThenInfer(FlagThenInfer(row, "SCALE", scale), "PROPERTY", property)

\* inferScaleAndProperty(row, altUnits, unitProperties, rowNum)
inferScaleAndProperty(row, l2p, propsOfUnits) ==
  LET unitProperties == IF Contains(row.RAW_UNIT, T("%"))
                        THEN getPctUnitPropertiesByClass(l2p, row.CLASS) ELSE propsOfUnits
      isInterpretation == Contains(row.RAW_LAB_NAME, T("INTERPRETATION"))
      scale == IF isInterpretation THEN <<T("Nom"), T("Nar"), T("Ord"), T("Doc")>>
               ELSE IF Truthy(row.RAW_UNIT) THEN <<T("Qn")>> ELSE <<>>
      property == IF isInterpretation THEN <<T("Imp")>> ELSE unitProperties
  IN FlagThenInfer(FlagThenInfer(row, "SCALE", scale), "PROPERTY", property)

\* extractHpfLpf(unitOrMethod): "HPF", "LPF" or "" for null
extractHpfLpf(unitOrMethod) ==
  LET u == Squeeze(unitOrMethod)
      v == IF u # <<>> /\ u[Len(u)] = "]" THEN Squeeze(DropLast(u, 1)) ELSE u
  IN IF v = <<>> THEN ""
     ELSE IF v[Len(v)] \in {"HPF", "hpf"} THEN "HPF"
     ELSE IF v[Len(v)] \in {"LPF", "lpf"} THEN "LPF"
     ELSE ""

\* altUnits.reduce((acc, unit) => acc? acc: extractHpfLpf(unit), null)
RECURSIVE FirstXpf(_)
FirstXpf(altUnits) ==
  IF altUnits = <<>> THEN ""
  ELSE IF extractHpfLpf(Head(altUnits)) # "" THEN extractHpfLpf(Head(altUnits))
  ELSE FirstXpf(Tail(altUnits))

\* inferWithHfpLpf(row, altUnits, unitProperties, rowNum)
inferWithHfpLpf(row, altUnits) ==
  LET rawXpf == FirstXpf(altUnits)
      methodXpf == extractHpfLpf(row.METHOD)
      mappedXpf == IF methodXpf # "" THEN methodXpf ELSE extractHpfLpf(row.EX_UCUM)
  IN IF rawXpf # "" /\ mappedXpf # "" /\ mappedXpf # rawXpf
     THEN LET row1 == [addAlgoMappingIssue(row, IF mappedXpf = "HPF" THEN "HPF-LPF" ELSE "LPF-HPF")
                         EXCEPT !.ALGO_JUDGEMENT = "INCORRECT_aj"]
          IN IF methodXpf # ""
             THEN addInferredLoincParts(row1, "METHOD",
                                        <<ReplaceFirst(row.METHOD, T(mappedXpf), T(rawXpf))>>, "inferred")
             ELSE row1
     ELSE row

\* row.METHOD.startsWith('Microscopy.light')
IsLightMicroscopy(method) == Truthy(method) /\ method[1] \in {"Microscopy.light.", "Microscopy.light"}

\* inferLoincPartsUAxPF(row)
inferLoincPartsUAxPF(row) ==
  LET rawXpf == extractHpfLpf(row.RAW_UNIT)
      mappedXpf == IF extractHpfLpf(row.METHOD) # "" THEN extractHpfLpf(row.METHOD)
                   ELSE extractHpfLpf(row.EX_UCUM)
      methodWrong == rawXpf # mappedXpf /\ (mappedXpf # "" \/ IsLightMicroscopy(row.METHOD))
  IN IF row.CLASS = T("UA") /\ rawXpf # ""
          /\ (row.SCALE # T("Qn") \/ row.PROPERTY # T("Naric") \/ methodWrong)
     THEN LET r1 == addInferredLoincParts(row, "SYSTEM", <<T("Urine"), T("Urine sed")>>, "inferred")
              r2 == IF row.SCALE # T("Qn") THEN InferAndFlag(r1, "SCALE", <<T("Qn")>>, "inferred")
                    ELSE r1
              r3 == IF row.PROPERTY # T("Naric")
                    THEN InferAndFlag(r2, "PROPERTY", <<T("Naric")>>, "inferred") ELSE r2
          IN IF methodWrong
             THEN InferAndFlag(r3, "METHOD", << <<"Microscopy.light.", rawXpf>> >>, "inferred")
             ELSE r3
     ELSE row

\* /^CD([0-9]+) ANTIBODY$/i on the name: the words 'CD<num>' of the model
CDWords == << <<"CD10", "10">>, <<"CD4", "4">> >>

\* nameMatch[1], "" when the name does not match
CDNumber(name) ==
  IF Len(name) = 2 /\ name[2] = "ANTIBODY" /\ \E i \in 1..Len(CDWords) : CDWords[i][1] = name[1]
  THEN CDWords[CHOOSE i \in 1..Len(CDWords) : CDWords[i][1] = name[1]][2]
  ELSE ""

\* the forEach of inferLoincPartsCDxAntibody with a plausible slip: the test
\* row[partType] !== value is left out
RECURSIVE InferEach_noTest(_, _)
InferEach_noTest(row, partValues) ==
  IF partValues = <<>> THEN row
  ELSE InferEach_noTest(InferAndFlag(row, Head(partValues)[1], <<Head(partValues)[2]>>, "inferred"),
                        Tail(partValues))

RECURSIVE InferEach(_, _)
InferEach(row, partValues) ==
  IF partValues = <<>> THEN row
  ELSE LET partType == Head(partValues)[1]
           value == Head(partValues)[2]
       IN InferEach(IF row[partType] # value
                    THEN InferAndFlag(row, partType, <<value>>, "inferred") ELSE row,
                    Tail(partValues))

\* inferLoincPartsCDxAntibody(row)
inferLoincPartsCDxAntibody(row) ==
  IF CDNumber(row.RAW_LAB_NAME) # "" /\ row.CLASS # T("CELLMARK")
       /\ FoldText(row.SPECIMEN_SOURCE) = T("BLD")
       /\ Contains(row.RAW_UNIT, T("%"))
  THEN InferEach(row, << <<"COMPONENT", <<"Cells.CD", CDNumber(row.RAW_LAB_NAME), Slash, "100 cells">> >>,
                         <<"CLASS", T("CELLMARK")>>, <<"PROPERTY", T("NFr")>>, <<"SCALE", T("Qn")>>,
                         <<"TIME", T("Pt")>>, <<"SYSTEM", T("Bld")>> >>)
  ELSE row

\* the SRto / Creatinine rule at the end of inferAndValidate
inferCreatinineRatio(row, partIndexes) ==
  LET props == IF InferredNames(row, "PROPERTY") # <<>> THEN InferredNames(row, "PROPERTY")
               ELSE <<row.PROPERTY>>
      component == row.COMPONENT \o <<Slash, "Creatinine">>
  IN IF row.SYSTEM = T("Urine") /\ Includes(props, T("SRto"))
          /\ ~EndsWith(row.COMPONENT, <<Slash, "Creatinine">>)
          /\ hasLoincWithPart(partIndexes, "COMPONENT", component)
     THEN InferAndFlag(row, "COMPONENT", <<component>>, "inferred")
     ELSE row

\* the part names of the model that occur in lists of several names, in the
\* order Array.prototype.sort gives them (UTF-16 code units)
NameOrder ==
  << T("ACnc"), T("ARat"), T("Adrenal vein"), T("Adrenal vein.left"), T("Adrenal vein.right"),
     T("Amnio fld"), T("Bld"), T("Bld.dot"), T("BldC"), T("Body fld"), T("CCnc"), T("CRat"),
     T("CSF"), T("Dial fld"), T("Doc"), T("Exhl gas"), T("Hair"), T("Imp"), T("MCnc"), T("MFr"),
     T("MRat"), T("NCnc"), T("NFr"), T("NRat"), T("Nar"), T("Naric"), T("Nom"), T("Ord"),
     T("Pericard fld"), T("Periton fld"), T("Platelets"), T("Plr fld"), T("PrThr"), T("Pt"),
     T("Qn"), T("RBC"), T("RelACnc"), T("RelARat"), T("Renal vein"), T("SCnc"), T("SRat"),
     T("SRto"), T("Saliva"), T("Semen"), T("Ser/Plas"), T("Stool"), T("Tiss"), T("Urine"),
     T("Urine sed"), T("Vena cava.inferior"), T("WBC") >>

\* names.sort()
SortNames(names) ==
  IF Len(names) <= 1 THEN names
  ELSE FilterSeq(NameOrder, Range(names)) \o FilterSeq(names, Range(names) \ Range(NameOrder))

\* the names of an inferred entry that have the given type, in order
RECURSIVE NamesOfType(_, _, _)
NamesOfType(names, types, type) ==
  IF names = <<>> THEN <<>>
  ELSE (IF Head(types) = type THEN <<Head(names)>> ELSE <<>>)
         \o NamesOfType(Tail(names), Tail(types), type)

\* mergedByInferType[type + '_parts'].join('; ')
RECURSIVE MergedParts(_, _)
MergedParts(inferred, type) ==
  IF inferred = <<>> THEN Empty
  ELSE LET names == SortNames(NamesOfType(Head(inferred).names, Head(inferred).types, type))
           rest == MergedParts(Tail(inferred), type)
           this == <<Head(inferred).part, "=[">> \o JoinComma(names) \o <<"]">>
       IN IF names = <<>> THEN rest
          ELSE IF rest = Empty THEN this
          ELSE this \o <<"; ">> \o rest

\* combineInferredParts(row)
combineInferredParts(row) ==
  LET inferredParts == MergedParts(row.inferred, "inferred")
      parsedParts == MergedParts(row.inferred, "parsed")
  IN [row EXCEPT !.inferred_parts = IF inferredParts # Empty THEN inferredParts ELSE @,
                 !.parsed_parts = IF parsedParts # Empty THEN parsedParts ELSE @]

-----------------------------------------------------------------------------
(* preProcessAndValidate and its helpers                                   *)

\* words of the model that end with 'ase' (/.*ase\b/i)
AseWords == {"LIPASE", "AMYLASE"}

\* text.trim()
RECURSIVE Trim(_)
Trim(text) ==
  IF text # <<>> /\ Head(text) = " " THEN Trim(Tail(text))
  ELSE IF text # <<>> /\ text[Len(text)] = " " THEN Trim(DropLast(text, 1))
  ELSE text

\* getXformedRawUnit(row)
getXformedRawUnit(row) ==
  LET rawUnit == row.RAW_UNIT
  IN IF Contains(rawUnit, T("IU")) /\ \E i \in 1..Len(row.RAW_LAB_NAME) : row.RAW_LAB_NAME[i] \in AseWords
     THEN ReplaceFirst(rawUnit, T("IU"), T("U"))
     ELSE IF EndsWith(rawUnit, <<" ", "Cr">>) THEN Trim(DropLast(rawUnit, 2))
     ELSE rawUnit

\* getAllPossibleUnits(row): the keys of uniqUnits in insertion order; the
\* mappers tried one by one give what mapToUcum gives
getAllPossibleUnits(row) ==
  LET nm == IF row.RAW_UNIT = T("nm") THEN << <<"nmol", Slash, "mL">>, T("nmol") >> ELSE <<>>
      unit == getXformedRawUnit(row)
  IN PushUnique(nm,
       (IF Truthy(row.ucum_converted) THEN <<row.ucum_converted>> ELSE <<>>)
       \o (IF Truthy(unit)
           THEN <<unit>> \o (IF Truthy(mapToUcum(unit)) THEN <<mapToUcum(unit)>> ELSE <<>>)
           ELSE <<>>))

\* delimitedToList(value, ';'): the trimmed, non-empty pieces
RECURSIVE delimitedToList(_, _)
delimitedToList(value, piece) ==
  IF value = <<>> THEN (IF Trim(piece) # <<>> THEN <<Trim(piece)>> ELSE <<>>)
  ELSE IF Head(value) = ";"
       THEN (IF Trim(piece) # <<>> THEN <<Trim(piece)>> ELSE <<>>) \o delimitedToList(Tail(value), <<>>)
       ELSE delimitedToList(Tail(value), Append(piece, Head(value)))

\* getStdPartName(name, type): partLowerToName[type][name.trim().toLowerCase()] || ''
getStdPartName(l2p, name, type) ==
  LET hits == {i \in 1..Len(l2p) : l2p[i][type] # <<>> /\ Truthy(Trim(name))
                                     /\ FoldText(l2p[i][type][1]) = FoldText(Trim(name))}
  IN IF hits = {} THEN Empty ELSE l2p[CHOOSE i \in hits : \A j \in hits : j <= i][type][1]

pcnSpcmMapping ==
  << <<T("SER_PLAS"), T("Ser/Plas")>>, <<T("BODY_FLD"), T("Body fld")>>,
     <<T("PLR_FLD"), T("Plr fld")>>, <<T("RESPIRATOR"), T("Respiratory")>>, <<T("UN"), Empty>> >>

\* pcnSpcmMapping[spcm] || getStdPartName(spcm, 'SYSTEM')
StdSpecimen(l2p, spcm) ==
  IF \E i \in 1..Len(pcnSpcmMapping) : pcnSpcmMapping[i][1] = spcm /\ Truthy(pcnSpcmMapping[i][2])
  THEN pcnSpcmMapping[CHOOSE i \in 1..Len(pcnSpcmMapping) : pcnSpcmMapping[i][1] = spcm][2]
  ELSE getStdPartName(l2p, spcm, "SYSTEM")

RECURSIVE SpcList(_, _, _)
SpcList(l2p, spcms, spcList) ==
  IF spcms = <<>> THEN spcList
  ELSE LET stdPartName == StdSpecimen(l2p, Head(spcms))
       IN SpcList(l2p, Tail(spcms),
                  IF Truthy(stdPartName) THEN PushUnique(spcList, <<stdPartName>>) ELSE spcList)

\* normalizeSPECIMEN_SOURCE(row): the new SPECIMEN_SOURCE
normalizeSPECIMEN_SOURCE(l2p, row) ==
  LET spcList == SpcList(l2p, delimitedToList(row.SPECIMEN_SOURCE, <<>>), <<>>)
  IN IF Len(spcList) = 1 THEN spcList[1] ELSE Empty

\* convertToUcum(row): the new ucum_converted
convertToUcum(row) ==
  IF Truthy(getXformedRawUnit(row)) THEN mapToUcum(getXformedRawUnit(row)) ELSE Empty

\* row.RAW_LAB_NAME.match(/^[^a-zA-Z]+$/)
NoLetter(name) == name # <<>> /\ \A i \in 1..Len(name) : name[i] \in NumberWords

\* getInitialRowStatus with a plausible slip: the category is looked at first
InitialRowStatus_categoryFirst(l2p, row) ==
  IF row.INC_CATEGORY = T("non qn") THEN "NON_QN"
  ELSE IF ~Truthy(row.LAB_LOINC) \/ ~HasLoinc(l2p, row.LAB_LOINC) THEN "WACKO_INVALID_LOINC"
  ELSE IF ~Truthy(row.RAW_LAB_NAME) \/ NoLetter(row.RAW_LAB_NAME) THEN "WACKO_NUMERIC_RAW_NAME"
  ELSE "CORRECT_aj"

\* getInitialRowStatus(row)
getInitialRowStatus(l2p, row) ==
  IF ~Truthy(row.LAB_LOINC) \/ ~HasLoinc(l2p, row.LAB_LOINC) THEN "WACKO_INVALID_LOINC"
  ELSE IF ~Truthy(row.RAW_LAB_NAME) \/ NoLetter(row.RAW_LAB_NAME) THEN "WACKO_NUMERIC_RAW_NAME"
  ELSE IF row.INC_CATEGORY = T("non qn") THEN "NON_QN"
  ELSE "CORRECT_aj"

\* isExcludeStatus(row)
isExcludeStatus(row) ==
  row.ALGO_JUDGEMENT \in {"WACKO_INVALID_LOINC", "WACKO_NUMERIC_RAW_NAME", "NON_QN"}

\* addLoincPartsFillMissingColumns, for the row at 1-based position index
addLoincPartsFillMissingColumns(l2p, row, index) ==
  LET r1 == IF row.ROW_NUM = 0 THEN [row EXCEPT !.ROW_NUM = index + 1] ELSE row
  IN IF HasLoinc(l2p, row.LAB_LOINC)
     THEN LET loinc == LoincEntry(l2p, row.LAB_LOINC)
          IN [r1 EXCEPT !.LONG_COMMON_NAME = loinc.LONG_COMMON_NAME,
                        !.EX_UCUM = loinc.EXAMPLE_UCUM_UNITS,
                        !.CLASS = First(loinc.CLASS), !.COMPONENT = First(loinc.COMPONENT),
                        !.PROPERTY = First(loinc.PROPERTY), !.TIME = First(loinc.TIME),
                        !.SYSTEM = First(loinc.SYSTEM), !.SCALE = First(loinc.SCALE),
                        !.METHOD = First(loinc.METHOD)]
     ELSE r1

\* the same statements with a plausible slip: ALGO_MAPPING_ISSUES is missing
\* from COMPUTED_FIELDS
PreProcessRow_keepIssues(l2p, row) ==
  LET r1 == [row EXCEPT !.SGG_LOINC = Empty, !.SGG_LONG_COMMON_NAME = Empty, !.SGG_OTHER = Empty,
                        !.inferred = <<>>, !.inferred_parts = Empty, !.parsed_parts = Empty,
                        !.ucum_converted = Empty,
                        !.ALGO_JUDGEMENT = "", !.RULE_RELAXED_BY = Empty, !.TARGET_TERM = <<>>]
      r2 == [r1 EXCEPT !.SPECIMEN_SOURCE = normalizeSPECIMEN_SOURCE(l2p, r1)]
      r3 == [r2 EXCEPT !.ucum_converted = convertToUcum(r2)]
  IN [r3 EXCEPT !.ALGO_JUDGEMENT = getInitialRowStatus(l2p, r3)]

\* the first statements of the forEach of preProcessAndValidate, up to the
\* initial status: the computed fields are cleared, SPECIMEN_SOURCE is
\* normalised, the unit converted
PreProcessRow(l2p, row) ==
  LET r1 == [row EXCEPT !.SGG_LOINC = Empty, !.SGG_LONG_COMMON_NAME = Empty, !.SGG_OTHER = Empty,
                        !.inferred = <<>>, !.inferred_parts = Empty, !.parsed_parts = Empty,
                        !.ucum_converted = Empty, !.ALGO_MAPPING_ISSUES = <<>>,
                        !.ALGO_JUDGEMENT = "", !.RULE_RELAXED_BY = Empty, !.TARGET_TERM = <<>>]
      r2 == [r1 EXCEPT !.SPECIMEN_SOURCE = normalizeSPECIMEN_SOURCE(l2p, r1)]
      r3 == [r2 EXCEPT !.ucum_converted = convertToUcum(r2)]
  IN [r3 EXCEPT !.ALGO_JUDGEMENT = getInitialRowStatus(l2p, r3)]

\* the checks of inferAndValidate in the order they run
InferSteps ==
  <<"inferComponentByModifier", "inferLoincSystem", "inferLoincTime", "inferScaleAndProperty",
    "inferWithHfpLpf", "inferLoincPartsUAxPF", "inferLoincPartsCDxAntibody",
    "inferCreatinineRatio", "combineInferredParts">>

\* one check of inferAndValidate(row, altUnits, rowNum)
InferStep(step, row, l2p, partIndexes) ==
  LET altUnits == getAllPossibleUnits(row)
  IN CASE step = "inferComponentByModifier" -> inferComponentByModifier(row, partIndexes)
       [] step = "inferLoincSystem" -> inferLoincSystem(row)
       [] step = "inferLoincTime" -> inferLoincTime(row)
       [] step = "inferScaleAndProperty" ->
            inferScaleAndProperty(row, l2p, PropsOfUnits(<<>>, altUnits))
       [] step = "inferWithHfpLpf" -> inferWithHfpLpf(row, altUnits)
       [] step = "inferLoincPartsUAxPF" -> inferLoincPartsUAxPF(row)
       [] step = "inferLoincPartsCDxAntibody" -> inferLoincPartsCDxAntibody(row)
       [] step = "inferCreatinineRatio" -> inferCreatinineRatio(row, partIndexes)
       [] OTHER -> combineInferredParts(row)

\* inferAndValidate(row, altUnits, rowNum): all the checks from step k on
RECURSIVE inferAndValidate(_, _, _, _)
inferAndValidate(k, row, l2p, partIndexes) ==
  IF k > Len(InferSteps) THEN row
  ELSE inferAndValidate(k + 1, InferStep(InferSteps[k], row, l2p, partIndexes), l2p, partIndexes)

-----------------------------------------------------------------------------
(* altLoincSuggesterGen6.js: target term, candidate pool and the matcher   *)

\* getAltPartsFromInferred(row): the entries of the hash in key order; value
\* null is isNull
getAltPartsFromInferred(row) ==
  LET keep == {i \in 1..Len(row.inferred) :
                 Len(row.inferred[i].names) # 1 \/ row.inferred[i].names[1] # row[row.inferred[i].part]}
      kept == FilterSeq([i \in 1..Len(row.inferred) |-> i], keep)
  IN [k \in 1..Len(kept) |->
        [part |-> row.inferred[kept[k]].part, isNull |-> FALSE, names |-> row.inferred[kept[k]].names]]

\* replacementParts.hasOwnProperty(partType)
HasPart(replacementParts, partType) ==
  \E i \in 1..Len(replacementParts) : replacementParts[i].part = partType

PartOf(replacementParts, partType) ==
  replacementParts[CHOOSE i \in 1..Len(replacementParts) : replacementParts[i].part = partType]

\* the first statement of replaceAndFind: SYSTEM: null is put in when the
\* mapped system is XXX and no replacement system is given
WithSystemSkip(replacementParts, row) ==
  IF ~HasPart(replacementParts, "SYSTEM") /\ row.SYSTEM = T("XXX")
  THEN <<[part |-> "SYSTEM", isNull |-> TRUE, names |-> <<>>]>> \o replacementParts
  ELSE replacementParts

\* targetTermParts of replaceAndFind
targetTermParts(replacementParts, refPartsInfo) ==
  [partType \in PartTypes |->
     IF HasPart(replacementParts, partType)
     THEN IF PartOf(replacementParts, partType).isNull THEN [isNull |-> TRUE, names |-> <<>>]
          ELSE [isNull |-> FALSE,
                names |-> addPartSynonyms(partType, PartOf(replacementParts, partType).names)]
     ELSE [isNull |-> FALSE, names |-> addPartSynonyms(partType, refPartsInfo[partType])]]

\* the catalog after targetTermParts was built: addPartSynonyms pushes into
\* the reference entry's own lists where no replacement was given
SynonymsIntoRef(l2p, loinc, replacementParts) ==
  [i \in 1..Len(l2p) |->
     IF l2p[i].LOINC_NUM = loinc
     THEN [f \in DOMAIN l2p[i] |->
             IF f \in PartTypes /\ ~HasPart(replacementParts, f)
             THEN addPartSynonyms(f, l2p[i][f]) ELSE l2p[i][f]]
     ELSE l2p[i]]

FilterPartTypes == <<"PROPERTY", "TIME", "SYSTEM", "SCALE">>

\* the SYSTEM names of the filter
FilterSystem(names) ==
  LET withXXX == Append(names, T("XXX"))
  IN IF Includes(withXXX, T("Urine")) THEN withXXX \o <<T("Urine+Ser"), T("Urine+Ser/Plas")>>
     ELSE IF Includes(withXXX, T("CSF")) THEN withXXX \o <<T("Ser+CSF"), T("Ser/Plas+CSF")>>
     ELSE withXXX

\* filterParts with the slip the filter is written to avoid: the mapped
\* names only, no 'XXX' and no mixed specimens
FilterParts_exact(target) ==
  LET kept == FilterSeq(FilterPartTypes, {pt \in Range(FilterPartTypes) : ~target[pt].isNull})
  IN [k \in 1..Len(kept) |-> <<kept[k], target[kept[k]].names>>]

\* filterParts of replaceAndFind, as the list of <<partType, names>>
filterParts(target) ==
  LET kept == FilterSeq(FilterPartTypes, {pt \in Range(FilterPartTypes) : ~target[pt].isNull})
  IN [k \in 1..Len(kept) |->
        LET names == IF target[kept[k]].names = <<>> THEN <<Empty>> ELSE target[kept[k]].names
        IN <<kept[k], IF kept[k] = "SYSTEM" THEN FilterSystem(names) ELSE names>>]

\* the target term as written to TARGET_TERM
RECURSIVE TargetTermFrom(_, _)
TargetTermFrom(target, k) ==
  LET t == target[PartTypeList[k]]
      this == IF t.isNull THEN T("*")
              ELSE IF JoinComma(t.names) = Empty THEN T("-") ELSE JoinComma(t.names)
  IN IF k = Len(PartTypeList) THEN this ELSE this \o <<"; ">> \o TargetTermFrom(target, k + 1)

targetTerm(target) == TargetTermFrom(target, 1)

\* words of the model that contain 'crystal' (/crystal/i)
CrystalWords == {"CRYSTAL", "CRYSTALS", " crystals"}

HasCrystal(text) == \E i \in 1..Len(text) : text[i] \in CrystalWords

FragmentWords == {"FRAGMENTS", " fragments", "fragments"}

HasFragments(text) == \E i \in 1..Len(text) : text[i] \in FragmentWords

NucleatedWords == {"NUCLEATED", ".nucleated"}

HasNucleated(text) == \E i \in 1..Len(text) : text[i] \in NucleatedWords

\* text.replace(/<word>/i, '').trim(): the first of the words is taken out
DropFirstOf(text, words) ==
  IF \E i \in 1..Len(text) : text[i] \in words
  THEN LET i == Min({k \in 1..Len(text) : text[k] \in words})
       IN Trim(SubSeq(text, 1, i - 1) \o SubSeq(text, i + 1, Len(text)))
  ELSE Trim(text)

\* relaxedComponentMatch(row, targetLoincParts, candidateLoincParts, relaxations):
\* the relaxation pushed, "" when not matched
relaxedComponentMatch(row, target, candidate) ==
  LET candidateComp == First(candidate.COMPONENT)
      targetComp == First(target["COMPONENT"].names)
      pct == Contains(row.RAW_UNIT, T("%")) /\ ~Contains(targetComp, T(Slash))
               /\ IndexOf(candidateComp, T(Slash)) > 0
      dropCrystals == ~HasCrystal(row.RAW_LAB_NAME) /\ EndsWith(targetComp, T(" crystals"))
                        /\ ~HasCrystal(candidateComp)
      relaxedTarget == IF dropCrystals THEN DropLast(targetComp, 1) ELSE targetComp
      first ==
        IF pct
        THEN IF StartsWith(candidateComp, relaxedTarget \o T(Slash))
                  \/ relaxedTarget \o <<" actual", Slash, "Normal">> = candidateComp
             THEN (IF relaxedTarget = targetComp THEN "COMP-denom for %"
                   ELSE "COMP-denom for %, dropping crystals")
             ELSE ""
        ELSE IF Includes(target["PROPERTY"].names, T("NCnc"))
                  /\ candidateComp \o <<Slash, "100 leukocytes">> = targetComp
             THEN "matchPart: NCnc ignoring \"/100 leukocytes\""
             ELSE ""
  IN IF first # "" THEN first
     ELSE IF (\E p \in Range(target["PROPERTY"].names) : EndsWithCnc(p))
               /\ EndsWith(targetComp, <<" actual", Slash, "Normal">>)
               /\ DropLast(targetComp, 3) = candidateComp
          THEN "matchPart: dropping actual/Normal for ACnc"
     ELSE IF ~HasFragments(row.RAW_LAB_NAME) /\ HasFragments(targetComp)
               /\ DropFirstOf(targetComp, FragmentWords) = candidateComp
          THEN "matchPart: dropping fragments"
     ELSE IF ~HasNucleated(row.RAW_LAB_NAME) /\ HasNucleated(targetComp)
               /\ DropFirstOf(targetComp, NucleatedWords) = candidateComp
          THEN "matchPart: dropping .nucleated"
     ELSE ""

maxRelaxLevel == 3

\* the METHOD case of matchPart with a plausible slip: each relaxation holds
\* at its own level only
MethodRelaxation_exactLevel(currRelaxLevel, candidates) ==
  IF currRelaxLevel = 1 /\ candidates = <<>> THEN "METHOD-empty-ok"
  ELSE IF currRelaxLevel = 2 THEN "METHOD-match-waived"
  ELSE ""

\* the METHOD case of matchPart with the waiver tested first
MethodRelaxation_waiverFirst(currRelaxLevel, candidates) ==
  IF currRelaxLevel > 1 THEN "METHOD-match-waived"
  ELSE IF currRelaxLevel > 0 /\ candidates = <<>> THEN "METHOD-empty-ok"
  ELSE ""

\* the METHOD case of matchPart: the relaxation pushed, "" when not matched
MethodRelaxation(currRelaxLevel, candidates) ==
  IF currRelaxLevel > 0 /\ candidates = <<>> THEN "METHOD-empty-ok"
  ELSE IF currRelaxLevel > 1 THEN "METHOD-match-waived"
  ELSE ""

\* shouldTryDefaultSpecimen(row): its first statement is return false
shouldTryDefaultSpecimen(row) == FALSE

\* the SYSTEM case of matchPart with the default specimen tried for every row
SystemRelaxation_defaultSpecimen(row, names, candidates) ==
  IF \E k \in 1..Len(names) : partsCompatible("SYSTEM", names[k], First(candidates), row.CLASS)
  THEN [matched |-> TRUE, relax |-> ""]
  ELSE IF partsCompatible("SYSTEM", getDefaultSpecimen(row.CLASS), First(candidates), row.CLASS)
       THEN [matched |-> TRUE, relax |-> "matched-with-default-specimen"]
       ELSE IF First(candidates) = T("XXX")
            THEN [matched |-> TRUE, relax |-> "specimen-xxx-match-waived"]
            ELSE [matched |-> FALSE, relax |-> ""]

\* the SYSTEM case of matchPart
SystemRelaxation(row, names, candidates) ==
  IF \E k \in 1..Len(names) : partsCompatible("SYSTEM", names[k], First(candidates), row.CLASS)
  THEN [matched |-> TRUE, relax |-> ""]
  ELSE IF /\ shouldTryDefaultSpecimen(row)
          /\ partsCompatible("SYSTEM", getDefaultSpecimen(row.CLASS), First(candidates), row.CLASS)
       THEN [matched |-> TRUE, relax |-> "matched-with-default-specimen"]
       ELSE IF First(candidates) = T("XXX")
            THEN [matched |-> TRUE, relax |-> "specimen-xxx-match-waived"]
            ELSE [matched |-> FALSE, relax |-> ""]

\* matchPart(context, partType, srcParts, candidateLoincParts, currRelaxLevel,
\* relaxations): matched, and the relaxation pushed ("" for none)
matchPart(row, partType, srcParts, candidateLoincParts, currRelaxLevel) ==
  LET candidates == candidateLoincParts[partType]
      src == srcParts[partType]
      ByRelax(relax) == [matched |-> relax # "", relax |-> relax]
  IN IF src.isNull \/ (src.names = <<>> /\ candidates = <<>>)
          \/ \E k \in 1..Len(src.names) : Includes(candidates, src.names[k])
     THEN [matched |-> TRUE, relax |-> ""]
     ELSE CASE partType = "METHOD" -> ByRelax(MethodRelaxation(currRelaxLevel, candidates))
            [] partType = "CLASS" ->
                 ByRelax(IF currRelaxLevel > 2 THEN "CLASS-match-waived" ELSE "")
            [] partType = "COMPONENT" ->
                 ByRelax(relaxedComponentMatch(row, srcParts, candidateLoincParts))
            [] partType = "SYSTEM" -> SystemRelaxation(row, src.names, candidates)
            [] OTHER -> [matched |-> FALSE, relax |-> ""]

\* the mismatching part types the loop of isAltLoinc records: it stops at
\* the third
Mismatches(row, target, candidate, currRelaxLevel) ==
  LET all == FilterSeq(PartTypeList,
                       {pt \in PartTypes :
                          ~matchPart(row, pt, target, candidate, currRelaxLevel).matched})
  IN IF Len(all) > 3 THEN SubSeq(all, 1, 3) ELSE all

\* the relaxations pushed by the loop of isAltLoinc
RelaxationsAt(row, target, candidate, currRelaxLevel) ==
  LET with == FilterSeq(PartTypeList,
                        {pt \in PartTypes :
                           matchPart(row, pt, target, candidate, currRelaxLevel).relax # ""})
  IN [k \in 1..Len(with) |-> matchPart(row, with[k], target, candidate, currRelaxLevel).relax]

\* the retry test of isAltLoinc with a plausible slip: a CLASS mismatch is
\* not retried
ShouldEscalate_methodOnly(currRelaxLevel, mismatches) ==
  /\ currRelaxLevel < maxRelaxLevel
  /\ mismatches = <<"METHOD">>

\* the retry test of isAltLoinc with a plausible slip: any one or two
\* mismatches with METHOD or CLASS among them are retried
ShouldEscalate_loose(currRelaxLevel, mismatches) ==
  /\ currRelaxLevel < maxRelaxLevel
  /\ Len(mismatches) <= 2
  /\ (Includes(mismatches, "METHOD") \/ Includes(mismatches, "CLASS"))

\* the retry test of isAltLoinc
ShouldEscalate(currRelaxLevel, mismatches) ==
  /\ currRelaxLevel < maxRelaxLevel
  /\ \/ (Len(mismatches) = 1 /\ (Includes(mismatches, "METHOD") \/ Includes(mismatches, "CLASS")))
     \/ (Len(mismatches) = 2 /\ Includes(mismatches, "METHOD") /\ Includes(mismatches, "CLASS"))

\* isAltLoinc(refLoincParts, partTypesAndAltNames, targetTermParts,
\* candidateLoincParts, context, currRelaxLevel): the status returned, with
\* the level of the call that returned it
RECURSIVE isAltLoinc(_, _, _, _)
isAltLoinc(row, target, candidate, currRelaxLevel) ==
  LET mismatches == Mismatches(row, target, candidate, currRelaxLevel)
  IN IF mismatches = <<>>
     THEN [matched |-> TRUE, relaxations |-> RelaxationsAt(row, target, candidate, currRelaxLevel),
           level |-> currRelaxLevel]
     ELSE IF ShouldEscalate(currRelaxLevel, mismatches)
          THEN isAltLoinc(row, target, candidate, currRelaxLevel + 1)
          ELSE [matched |-> FALSE, relaxations |-> <<>>, level |-> currRelaxLevel]

\* JSON.parse(JSON.stringify(candidateLoincPartsInfo)) with the relaxations
MatchOf(candidate, status) ==
  [LOINC_NUM |-> candidate.LOINC_NUM, LONG_COMMON_NAME |-> candidate.LONG_COMMON_NAME,
   STATUS |-> candidate.STATUS, EXAMPLE_UCUM_UNITS |-> candidate.EXAMPLE_UCUM_UNITS,
   CLASS |-> candidate.CLASS, COMPONENT |-> candidate.COMPONENT, PROPERTY |-> candidate.PROPERTY,
   TIME |-> candidate.TIME, SYSTEM |-> candidate.SYSTEM, SCALE |-> candidate.SCALE,
   METHOD |-> candidate.METHOD, relaxations |-> status.relaxations]

\* the loop with a plausible slip: the reference entry is checked like the
\* other entries of the pool
RECURSIVE AltLoincs_withSelf(_, _, _, _, _)
AltLoincs_withSelf(l2p, loincsToCheck, loinc, row, target) ==
  IF loincsToCheck = <<>> THEN <<>>
  ELSE LET candidate == LoincEntry(l2p, Head(loincsToCheck))
           rest == AltLoincs_withSelf(l2p, Tail(loincsToCheck), loinc, row, target)
       IN IF isAltLoinc(row, target, candidate, 0).matched
          THEN <<MatchOf(candidate, isAltLoinc(row, target, candidate, 0))>> \o rest
          ELSE rest

\* the loop of replaceAndFind over loincsToCheck
RECURSIVE AltLoincs(_, _, _, _, _)
AltLoincs(l2p, loincsToCheck, loinc, row, target) ==
  IF loincsToCheck = <<>> THEN <<>>
  ELSE LET candidate == LoincEntry(l2p, Head(loincsToCheck))
           rest == AltLoincs(l2p, Tail(loincsToCheck), loinc, row, target)
       IN IF Head(loincsToCheck) = loinc THEN rest
          ELSE IF isAltLoinc(row, target, candidate, 0).matched
               THEN <<MatchOf(candidate, isAltLoinc(row, target, candidate, 0))>> \o rest
               ELSE rest

\* replaceAndFind(loinc, replacementParts, context): altLoincs and targetTerm
\* of the result, with the pool that was checked; l2p is the catalog the
\* candidates are read from (the reference entry has its synonyms by then)
replaceAndFind(l2p, partIndexes, loinc, altParts, row) ==
  LET replacementParts == WithSystemSkip(altParts, row)
      target == targetTermParts(replacementParts, LoincEntry(l2p, loinc))
      loincsToCheck == getLoincForPartsInternal(partIndexes, filterParts(target))
  IN [altLoincs |-> AltLoincs(SynonymsIntoRef(l2p, loinc, replacementParts), loincsToCheck,
                              loinc, row, target),
      targetTerm |-> targetTerm(target), pool |-> loincsToCheck, target |-> target]

-----------------------------------------------------------------------------
(* The data rows the engine is run on                                      *)

MgDl == <<"mg", Slash, "dL">>

\* rows as read from the data file: assigned code, raw name, raw unit,
\* SPECIMEN_SOURCE, inclusion category
RowPool ==
  << NewRow(T("2345-7"), <<"GLUCOSE", "SERUM">>, MgDl, Empty, Empty),
     NewRow(T("2345-7"), <<"GLUCOSE", "URINE">>, MgDl, Empty, Empty),
     NewRow(T("2350-7"), <<"GLUCOSE", "SERUM">>, MgDl, Empty, Empty),
     NewRow(T("2345-7"), <<"GLUCOSE">>, <<"mg", Slash, "24", " ", "hr">>, Empty, Empty),
     NewRow(T("9999-9"), <<"GLUCOSE", "URINE">>, MgDl, Empty, Empty),
     NewRow(Empty, <<"GLUCOSE">>, MgDl, Empty, Empty),
     NewRow(T("2345-7"), <<"12345">>, MgDl, Empty, Empty),
     NewRow(T("2345-7"), Empty, MgDl, Empty, Empty),
     NewRow(T("2345-7"), <<"GLUCOSE", "URINE">>, MgDl, Empty, T("non qn")),
     NewRow(T("9999-9"), <<"12345">>, MgDl, Empty, T("non qn")),
     NewRow(T("2345-7"), <<"12345">>, MgDl, Empty, T("non qn")),
     NewRow(T("770-8"), <<"NEUTROPHILS">>, <<"10*3", Slash, "uL">>, T("bld"), Empty),
     NewRow(T("5821-4"), <<"WBC">>, <<Slash, "LPF">>, T("Urine"), Empty),
     NewRow(T("2986-8"), <<"TESTOSTERONE", "FREE">>, <<"ng", Slash, "dL">>, Empty, Empty),
     NewRow(T("2345-7"), <<"CD10", "ANTIBODY">>, T("%"), T("bld"), Empty),
     NewRow(T("3208-6"), <<"FACTOR", "VIII">>, T("%"), Empty, Empty),
     NewRow(T("2341-6"), <<"GLUCOSE">>, <<"mmol", Slash, "L">>, T("SER_PLAS"), Empty),
     NewRow(T("1754-1"), <<"ALBUMIN">>, <<"mmol", Slash, "mol">>, <<"Urine", ";", "UN">>, Empty),
     NewRow(T("2502-3"), <<"IRON", "SATURATION">>, T("%"), Empty, Empty),
     NewRow(T("2350-7"), <<"GLUCOSE", "URINE", "RANDOM">>, MgDl, <<"Urine", ";", "bld">>, Empty),
     NewRow(T("5792-7"), <<"GLUCOSE", "SERUM">>, MgDl, Empty, Empty),
     NewRow(T("2345-7"), <<"GLUCOSE", "URINE">>, <<"mmol", Slash, "L">>, Empty, Empty),
     NewRow(T("2345-7"), <<"GLUCOSE", "URINE", "SERUM">>, MgDl, Empty, Empty),
     NewRow(T("2345-7"), <<"GLUCOSE", "URINE">>, <<"mg", Slash, "24", " ", "hr">>, Empty, Empty),
     NewRow(T("2345-7"), <<"GLUCOSE">>, <<"24", " ", "HR">>, Empty, Empty),
     NewRow(T("2502-3"), <<"IRON", "SATURATION", "INTERPRETATION">>, T("%"), Empty, Empty),
     NewRow(T("2345-7"), <<"CD4", "ANTIBODY">>, T("%"), T("bld"), Empty) >>

\* a row after addLoincPartsFillMissingColumns and the forEach body of
\* preProcessAndValidate
ProcessedRow(l2p, partIndexes, row, index) ==
  LET r == PreProcessRow(l2p, addLoincPartsFillMissingColumns(l2p, row, index))
  IN IF isExcludeStatus(r) THEN r ELSE inferAndValidate(1, r, l2p, partIndexes)

\* executeGeneralRule is reached and calls replaceAndFind
CallsReplaceAndFind(row) ==
  /\ ~isExcludeStatus(row)
  /\ row.ALGO_MAPPING_ISSUES # <<>>
  /\ getAltPartsFromInferred(row) # <<>>

-----------------------------------------------------------------------------
(* The matcher specification: a flagged row of the pool has gone through   *)
(* preProcessAndValidate; replaceAndFind builds its target term and pool;  *)
(* isAltLoinc is then applied to the catalog entries, from each start      *)
(* level.                                                                  *)

InitMatch ==
  /\ loincToParts = LoincTable
  /\ loincPartIndexex = buildLoincPartsIndex(loincToParts)
  /\ \E i \in 1..Len(RowPool) :
       LET row == ProcessedRow(loincToParts, loincPartIndexex, RowPool[i], 1)
       IN /\ CallsReplaceAndFind(row)
          /\ mCtx = [row |-> row, target |-> <<>>, candidate |-> Empty]
  /\ pcnRows = <<>>
  /\ pc = "m_row"
  /\ rowNum = 0
  /\ pass = 0
  /\ qParts = <<>>
  /\ qResult = <<>>
  /\ mStatus = <<>>
  /\ sIn = NoCtx
  /\ sOut = <<>>
  /\ hist = <<>>

\* replaceAndFind up to getLoincForParts(filterParts)
BuildTargetAndPool ==
  /\ pc = "m_row"
  /\ LET replacementParts == WithSystemSkip(getAltPartsFromInferred(mCtx.row), mCtx.row)
         target == targetTermParts(replacementParts, LoincEntry(loincToParts, mCtx.row.LAB_LOINC))
     IN /\ mCtx' = [mCtx EXCEPT !.target = target]
        /\ loincToParts' = SynonymsIntoRef(loincToParts, mCtx.row.LAB_LOINC, replacementParts)
        /\ qParts' = filterParts(target)
        /\ qResult' = getLoincForPartsInternal(loincPartIndexex, filterParts(target))
  /\ pc' = "m_pool"
  /\ UNCHANGED <<loincPartIndexex, pcnRows, rowNum, pass, mStatus, sIn, sOut, hist>>

\* a catalog entry other than the assigned one is taken as candidate
TakeCandidate ==
  /\ pc = "m_pool"
  /\ \E i \in 1..Len(loincToParts) :
       /\ loincToParts[i].LOINC_NUM # mCtx.row.LAB_LOINC
       /\ mCtx' = [mCtx EXCEPT !.candidate = loincToParts[i].LOINC_NUM]
  /\ mStatus' = <<>>
  /\ pc' = "m_cand"
  /\ UNCHANGED <<loincToParts, loincPartIndexex, pcnRows, rowNum, pass, qParts, qResult,
                 sIn, sOut, hist>>

\* isAltLoinc(..., currRelaxLevel) for the next start level 0, 1, 2, 3
CallIsAltLoinc ==
  /\ pc = "m_cand"
  /\ Len(mStatus) <= maxRelaxLevel
  /\ mStatus' = Append(mStatus, isAltLoinc(mCtx.row, mCtx.target,
                                           LoincEntry(loincToParts, mCtx.candidate), Len(mStatus)))
  /\ UNCHANGED <<loincToParts, loincPartIndexex, pcnRows, pc, rowNum, pass, qParts, qResult,
                 mCtx, sIn, sOut, hist>>

\* on to the next entry
DropCandidate ==
  /\ pc = "m_cand"
  /\ Len(mStatus) > maxRelaxLevel
  /\ mCtx' = [mCtx EXCEPT !.candidate = Empty]
  /\ mStatus' = <<>>
  /\ pc' = "m_pool"
  /\ UNCHANGED <<loincToParts, loincPartIndexex, pcnRows, rowNum, pass, qParts, qResult,
                 sIn, sOut, hist>>

NextMatch == BuildTargetAndPool \/ TakeCandidate \/ CallIsAltLoinc \/ DropCandidate

SpecMatch == InitMatch /\ [][NextMatch]_vars

\* the part types that do not match at a level, all seven looked at
MismatchSet(level) ==
  {pt \in PartTypes :
     ~matchPart(mCtx.row, pt, mCtx.target, LoincEntry(loincToParts, mCtx.candidate), level).matched}

Relaxable == {"METHOD", "CLASS"}

\* C3: whenever isAltLoinc (from level 0) accepts a catalog entry other than
\* the assigned one for the target term of a record, that entry is in the
\* pool getLoincForParts(filterParts) returned for the record.
C3_PoolKeepsMatches ==
  (pc = "m_cand" /\ Len(mStatus) >= 1 /\ mStatus[1].matched) => Includes(qResult, mCtx.candidate)

\* C4: if isAltLoinc started at level N accepts the candidate, so does
\* isAltLoinc started at every level M with N < M <= 3.
C4_RelaxationMonotone ==
  pc = "m_cand" =>
    \A n \in 1..Len(mStatus) : \A m \in 1..Len(mStatus) :
       (n < m /\ mStatus[n].matched) => mStatus[m].matched

\* a candidate accepted from level 0 only at level 2, and accepted again when
\* started at levels 1, 2 and 3
C4_Witness ==
  /\ pc = "m_cand" /\ Len(mStatus) = 4
  /\ mStatus[1].matched /\ mStatus[1].level = 2
  /\ mStatus[4].matched /\ mStatus[4].level = 3

\* C5: a candidate whose mismatches at level 0 are METHOD and/or CLASS only
\* is accepted at the first level (1, 2 or 3) at which nothing mismatches,
\* having mismatched only METHOD and/or CLASS below it; a candidate with
\* three or more mismatches at level 0, or with a mismatch on COMPONENT,
\* PROPERTY, TIME, SYSTEM or SCALE, is rejected at level 0 and is accepted
\* from no start level.
C5_MismatchBoundary ==
  (pc = "m_cand" /\ Len(mStatus) >= 1) =>
    /\ (MismatchSet(0) # {} /\ MismatchSet(0) \subseteq Relaxable) =>
          /\ mStatus[1].matched
          /\ mStatus[1].level \in 1..maxRelaxLevel
          /\ MismatchSet(mStatus[1].level) = {}
          /\ \A l \in 0..(mStatus[1].level - 1) :
                MismatchSet(l) # {} /\ MismatchSet(l) \subseteq Relaxable
    /\ (Cardinality(MismatchSet(0)) >= 3 \/ MismatchSet(0) \ Relaxable # {}) =>
          /\ ~mStatus[1].matched /\ mStatus[1].level = 0
          /\ \A k \in 1..Len(mStatus) : ~mStatus[k].matched

\* both sides at work: a candidate mismatching METHOD and CLASS accepted at
\* level 3 ...
C5_Witness ==
  /\ pc = "m_cand" /\ Len(mStatus) = 4
  /\ MismatchSet(0) = Relaxable
  /\ mStatus[1].matched /\ mStatus[1].level = 3

-----------------------------------------------------------------------------
(* selectBestMatch and the rest of executeRules.  Scores are kept in       *)
(* hundredths: 25 * Math.pow(n, 0.25) is 25, 29.73, 32.90, 35.36 for       *)
(* n = 1..4 relaxations, and no two sums of the code's terms that differ   *)
(* are closer than a hundredth.                                            *)

RelaxationPenalty == <<2500, 2973, 3290, 3536>>

\* the boost test of selectBestMatch for rows mapped to XXX without inferred
\* specimen
SpecimenBoost(m, row) ==
  /\ row.SYSTEM = T("XXX") /\ InferredNames(row, "SYSTEM") = <<>>
  /\ \/ partsCompatible("SYSTEM", First(m.SYSTEM), row.SPECIMEN_SOURCE, row.CLASS)
     \/ partsCompatible("SYSTEM", First(m.SYSTEM), getDefaultSpecimen(row.CLASS), row.CLASS)

\* the count with a plausible slip: a match whose SYSTEM is XXX agrees with
\* the row on SYSTEM
MatchedParts_xxxCounts(m, row) ==
  Cardinality({part \in PartTypes :
                 \/ (part = "SYSTEM" /\ First(m[part]) = T("XXX"))
                 \/ IF InferredNames(row, part) # <<>>
                    THEN Includes(InferredNames(row, part), First(m[part]))
                    ELSE row[part] = First(m[part])})

\* the number of part types of the match that agree with the row
MatchedParts(m, row) ==
  Cardinality({part \in PartTypes :
                 IF InferredNames(row, part) # <<>>
                 THEN Includes(InferredNames(row, part), First(m[part]))
                 ELSE row[part] = First(m[part])})

\* m.score as set by selectBestMatch, in hundredths
ScoreOf(m, row) ==
  5000
  - (IF m.relaxations # <<>> THEN RelaxationPenalty[Len(m.relaxations)] ELSE 0)
  - (IF m.STATUS = T("DEPRECATED") THEN 2000 ELSE 0)
  - (IF m.STATUS = T("DISCOURAGED") THEN 1000 ELSE 0)
  + (IF SpecimenBoost(m, row) THEN 3500 ELSE 0)
  + (IF Truthy(row.RAW_UNIT) /\ row.RAW_UNIT = m.EXAMPLE_UCUM_UNITS THEN 1000 ELSE 0)
  + (IF MatchedParts(m, row) = Len(PartTypeList) THEN 5000 ELSE 0)

\* candidates.sort(getSort([m => m.score, true])): stable, higher score first
RECURSIVE InsertByScore(_, _)
InsertByScore(sorted, m) ==
  IF sorted = <<>> THEN <<m>>
  ELSE IF m.score > Head(sorted).score THEN <<m>> \o sorted
  ELSE <<Head(sorted)>> \o InsertByScore(Tail(sorted), m)

RECURSIVE SortByScore(_, _)
SortByScore(sorted, rest) ==
  IF rest = <<>> THEN sorted ELSE SortByScore(InsertByScore(sorted, Head(rest)), Tail(rest))

\* the splice loop with a plausible slip: nothing is taken out
UniqueByLoinc_keepAll(candidates, seen) == candidates

\* the splice loop of selectBestMatch: the first match of each LOINC_NUM stays
RECURSIVE UniqueByLoinc(_, _)
UniqueByLoinc(candidates, seen) ==
  IF candidates = <<>> THEN <<>>
  ELSE IF Head(candidates).LOINC_NUM \in seen THEN UniqueByLoinc(Tail(candidates), seen)
  ELSE <<Head(candidates)>> \o UniqueByLoinc(Tail(candidates), seen \cup {Head(candidates).LOINC_NUM})

\* selectBestMatch(allMatches, row, rules) for a non-empty list: [bestMatch,
\* rest]; a single match is returned as it is, without score
selectBestMatch(allMatches, row) ==
  IF Len(allMatches) = 1 THEN [best |-> allMatches[1], rest |-> <<>>]
  ELSE LET scored == [k \in 1..Len(allMatches) |->
                        allMatches[k] @@ [score |-> ScoreOf(allMatches[k], row)]]
           candidates == UniqueByLoinc(SortByScore(<<>>, scored), {})
       IN [best |-> candidates[1], rest |-> Tail(candidates)]

\* list.join('; ') of texts
RECURSIVE JoinSemi(_)
JoinSemi(list) ==
  IF list = <<>> THEN Empty
  ELSE IF Len(list) = 1 THEN list[1]
  ELSE list[1] \o <<"; ">> \o JoinSemi(Tail(list))

\* the write with a plausible slip: uniqVals.ALGO_JUDGEMENT is not assigned
WriteSuggestion_keepJudgement(row, best, rest) ==
  [row EXCEPT !.SGG_LOINC = best.LOINC_NUM,
              !.SGG_LONG_COMMON_NAME = best.LONG_COMMON_NAME,
              !.RULE_RELAXED_BY = JoinSemi([k \in 1..Len(PushUnique(<<>>, best.relaxations)) |->
                                             T(PushUnique(<<>>, best.relaxations)[k])]),
              !.SGG_OTHER = JoinSemi([k \in 1..Len(rest) |->
                                        rest[k].LOINC_NUM \o <<":{">> \o rest[k].LONG_COMMON_NAME \o <<"}">>])]

\* the end of the forEach body of executeRules: the suggestion is written to
\* the row
WriteSuggestion(row, best, rest) ==
  [row EXCEPT !.SGG_LOINC = best.LOINC_NUM,
              !.SGG_LONG_COMMON_NAME = best.LONG_COMMON_NAME,
              !.RULE_RELAXED_BY = JoinSemi([k \in 1..Len(PushUnique(<<>>, best.relaxations)) |->
                                             T(PushUnique(<<>>, best.relaxations)[k])]),
              !.ALGO_JUDGEMENT = "FIXED",
              !.SGG_OTHER = JoinSemi([k \in 1..Len(rest) |->
                                        rest[k].LOINC_NUM \o <<":{">> \o rest[k].LONG_COMMON_NAME \o <<"}">>])]

\* for(let unit of units) ... allMatches.push(loincInfo): the general rule
\* does not look at the unit, every unit form gives the same matches
RECURSIVE PerUnit(_, _)
PerUnit(n, altLoincs4Unit) ==
  IF n = 0 THEN <<>> ELSE altLoincs4Unit \o PerUnit(n - 1, altLoincs4Unit)

\* units = units.length? units: ['NA-NA']
UnitsToTry(row) ==
  IF getAllPossibleUnits(row) = <<>> THEN <<T("NA-NA")>> ELSE getAllPossibleUnits(row)

\* reformatValuesToString(row)
reformatValuesToString(row) ==
  [row EXCEPT !.ALGO_MAPPING_ISSUES = JoinSemi([k \in 1..Len(@) |-> T(@[k])]),
              !.TARGET_TERM = JoinSemi(PushUnique(<<>>, @))]

-----------------------------------------------------------------------------
(* The selection specification: selectBestMatch is given lists of matches  *)
(* the matcher accepted for a flagged row, the same match possibly several *)
(* times (once per unit form), and the suggestion is written to the row.   *)

\* longest list of matches in the selection specification
MaxMatches == 3

\* a flagged row after inference, before executeRules reaches it
InitSelect ==
  /\ loincToParts = LoincTable
  /\ loincPartIndexex = buildLoincPartsIndex(loincToParts)
  /\ \E i \in 1..Len(RowPool) :
       LET row == ProcessedRow(loincToParts, loincPartIndexex, RowPool[i], 1)
       IN /\ CallsReplaceAndFind(row)
          /\ sIn = [row |-> row, found |-> <<>>, allMatches |-> <<>>]
  /\ pcnRows = <<>>
  /\ pc = "s_row"
  /\ rowNum = 0
  /\ pass = 0
  /\ qParts = <<>>
  /\ qResult = <<>>
  /\ mCtx = NoCtx
  /\ mStatus = <<>>
  /\ sOut = <<>>
  /\ hist = <<>>

\* executeGeneralRule: replaceAndFind for the row; the matches it accepted
FindMatches ==
  /\ pc = "s_row"
  /\ \E result \in {replaceAndFind(loincToParts, loincPartIndexex, sIn.row.LAB_LOINC,
                                     getAltPartsFromInferred(sIn.row), sIn.row)} :
       /\ result.altLoincs # <<>>
       /\ sIn' = [sIn EXCEPT !.found = result.altLoincs]
       /\ qResult' = result.pool
       /\ loincToParts' = SynonymsIntoRef(loincToParts, sIn.row.LAB_LOINC,
                                          WithSystemSkip(getAltPartsFromInferred(sIn.row), sIn.row))
  /\ pc' = "s_in"
  /\ UNCHANGED <<loincPartIndexex, pcnRows, rowNum, pass, qParts, mCtx, mStatus, sOut, hist>>

\* allMatches.push(match), for a match some unit form produced
CollectMatch ==
  /\ pc = "s_in"
  /\ Len(sIn.allMatches) < MaxMatches
  /\ \E k \in 1..Len(sIn.found) :
       sIn' = [sIn EXCEPT !.allMatches = Append(@, sIn.found[k])]
  /\ UNCHANGED <<loincToParts, loincPartIndexex, pcnRows, pc, rowNum, pass, qParts, qResult,
                 mCtx, mStatus, sOut, hist>>

\* let [bestMatch, rest] = selectBestMatch(allMatches, row, rules)
SelectBestMatch ==
  /\ pc = "s_in"
  /\ sIn.allMatches # <<>>
  /\ sOut' = selectBestMatch(sIn.allMatches, sIn.row)
  /\ pc' = "s_selected"
  /\ UNCHANGED <<loincToParts, loincPartIndexex, pcnRows, rowNum, pass, qParts, qResult,
                 mCtx, mStatus, sIn, hist>>

\* Object.assign(row, uniqVals); row.SGG_OTHER = ...
WriteBestMatch ==
  /\ pc = "s_selected"
  /\ sIn' = [sIn EXCEPT !.row = WriteSuggestion(@, sOut.best, sOut.rest)]
  /\ pc' = "s_written"
  /\ UNCHANGED <<loincToParts, loincPartIndexex, pcnRows, rowNum, pass, qParts, qResult,
                 mCtx, mStatus, sOut, hist>>

NextSelect == FindMatches \/ CollectMatch \/ SelectBestMatch \/ WriteBestMatch

SpecSelect == InitSelect /\ [][NextSelect]_vars

\* the identifiers of primary plus alternates, in order
SelectedLoincs == <<sOut.best.LOINC_NUM>> \o [k \in 1..Len(sOut.rest) |-> sOut.rest[k].LOINC_NUM]

\* C6: for every non-empty list of accepted matches, the primary returned by
\* selectBestMatch scores at least as high as every alternate, the alternates
\* are in non-increasing score order, and no catalog identifier occurs twice
\* among primary and alternates (every identifier given occurs once).
C6_SelectionSound ==
  pc \in {"s_selected", "s_written"} =>
    /\ \A k \in 1..Len(sOut.rest) : sOut.best.score >= sOut.rest[k].score
    /\ \A j, k \in 1..Len(sOut.rest) : j < k => sOut.rest[j].score >= sOut.rest[k].score
    /\ NoDup(SelectedLoincs)
    /\ Range(SelectedLoincs) = {sIn.allMatches[k].LOINC_NUM : k \in 1..Len(sIn.allMatches)}

\* three matches given, one entry twice, and two alternates of different
\* scores below the primary have come out
C6_Witness ==
  /\ pc = "s_selected"
  /\ Len(sIn.allMatches) = 3
  /\ \E j, k \in 1..3 : j # k /\ sIn.allMatches[j].LOINC_NUM = sIn.allMatches[k].LOINC_NUM
  /\ Len(sOut.rest) = 1
  /\ sOut.best.score > sOut.rest[1].score

-----------------------------------------------------------------------------
(* The pipeline specification: validateAndSuggest on a batch of rows, the  *)
(* catalog loaded once, and again on its own output.                       *)

\* most rows in a batch
MaxRows == 2

\* validateAndSuggest is run at most this many times on a batch
MaxPasses == 2

\* a batch of n rows of the pool from row i on, and one of n times row i
Window(i, n) == [k \in 1..n |-> RowPool[((i + k - 2) % Len(RowPool)) + 1]]

Repeat(i, n) == [k \in 1..n |-> RowPool[i]]

\* the rows of Window(i, n) in the opposite order
Reverse(i, n) == [k \in 1..n |-> Window(i, n)[n + 1 - k]]

\* the columns of a row the results file reports for it
Outputs(row) ==
  [ALGO_JUDGEMENT |-> row.ALGO_JUDGEMENT, ALGO_MAPPING_ISSUES |-> row.ALGO_MAPPING_ISSUES,
   inferred |-> row.inferred, inferred_parts |-> row.inferred_parts,
   parsed_parts |-> row.parsed_parts, SGG_LOINC |-> row.SGG_LOINC,
   SGG_LONG_COMMON_NAME |-> row.SGG_LONG_COMMON_NAME, SGG_OTHER |-> row.SGG_OTHER]

\* what is observed of a row: the record as it was read, whether
\* inferAndValidate and replaceAndFind were called for it in this pass, whether
\* a candidate was accepted, and its outputs at the end of the first pass
NewObservation(row) ==
  [raw |-> row, inferCalled |-> FALSE, matcherCalled |-> FALSE, accepted |-> FALSE, first |-> <<>>]

Init ==
  /\ loincToParts = LoincTable
  /\ loincPartIndexex = buildLoincPartsIndex(loincToParts)
  /\ \E i \in 1..Len(RowPool), n \in 1..MaxRows :
       pcnRows = Window(i, n) \/ pcnRows = Repeat(i, n) \/ pcnRows = Reverse(i, n)
  /\ hist = [k \in 1..Len(pcnRows) |-> NewObservation(pcnRows[k])]
  /\ pc = "addLoincPartsFillMissingColumns"
  /\ rowNum = 1
  /\ pass = 1
  /\ qParts = <<>>
  /\ qResult = <<>>
  /\ mCtx = NoCtx
  /\ mStatus = <<>>
  /\ sIn = NoCtx
  /\ sOut = <<>>

\* addLoincPartsFillMissingColumns(pcnRows)
FillColumns ==
  /\ pc = "addLoincPartsFillMissingColumns"
  /\ pcnRows' = [k \in 1..Len(pcnRows) |-> addLoincPartsFillMissingColumns(loincToParts, pcnRows[k], k)]
  /\ pc' = "preProcess"
  /\ rowNum' = 1
  /\ UNCHANGED <<loincToParts, loincPartIndexex, pass, qParts, qResult, mCtx, mStatus, sIn, sOut, hist>>

\* the forEach body of preProcessAndValidate up to the initial status; an
\* excluded row is done with, the others go on to inferAndValidate
PreProcess ==
  /\ pc = "preProcess"
  /\ \E row \in {PreProcessRow(loincToParts, pcnRows[rowNum])} :
       /\ pcnRows' = [pcnRows EXCEPT ![rowNum] = row]
       /\ IF ~isExcludeStatus(row)
          THEN pc' = InferSteps[1] /\ rowNum' = rowNum
          ELSE IF rowNum < Len(pcnRows)
               THEN pc' = pc /\ rowNum' = rowNum + 1
               ELSE pc' = "executeRules" /\ rowNum' = 1
  /\ UNCHANGED <<loincToParts, loincPartIndexex, pass, qParts, qResult, mCtx, mStatus, sIn, sOut, hist>>

\* one check of inferAndValidate for the row
Infer ==
  /\ \E k \in 1..Len(InferSteps) :
       /\ pc = InferSteps[k]
       /\ pcnRows' = [pcnRows EXCEPT ![rowNum] = InferStep(pc, @, loincToParts, loincPartIndexex)]
       /\ hist' = [hist EXCEPT ![rowNum].inferCalled = TRUE]
       /\ IF k < Len(InferSteps)
          THEN pc' = InferSteps[k + 1] /\ rowNum' = rowNum
          ELSE IF rowNum < Len(pcnRows)
               THEN pc' = "preProcess" /\ rowNum' = rowNum + 1
               ELSE pc' = "executeRules" /\ rowNum' = 1
  /\ UNCHANGED <<loincToParts, loincPartIndexex, pass, qParts, qResult, mCtx, mStatus, sIn, sOut>>

\* executeRules goes on to the next row, or returns
NextRuleRow ==
  IF rowNum < Len(pcnRows)
  THEN pc' = "executeRules" /\ rowNum' = rowNum + 1
  ELSE pc' = "reformatValuesToString" /\ rowNum' = 1

\* the forEach body of executeRules for the row, up to if(!allMatches.length)
\* return: an excluded row is skipped, executeRulesForRecord runs the general
\* rule for every unit form of the others
ExecuteRulesForRecord ==
  /\ pc = "executeRules"
  /\ IF ~CallsReplaceAndFind(pcnRows[rowNum])
     THEN /\ NextRuleRow
          /\ UNCHANGED <<pcnRows, loincToParts, qResult, sIn, hist>>
     ELSE \E result \in {replaceAndFind(loincToParts, loincPartIndexex, pcnRows[rowNum].LAB_LOINC,
                                        getAltPartsFromInferred(pcnRows[rowNum]), pcnRows[rowNum])} :
            /\ pcnRows' = [pcnRows EXCEPT ![rowNum].TARGET_TERM =
                             @ \o [k \in 1..Len(UnitsToTry(pcnRows[rowNum])) |-> result.targetTerm]]
            /\ loincToParts' = SynonymsIntoRef(loincToParts, pcnRows[rowNum].LAB_LOINC,
                                               WithSystemSkip(getAltPartsFromInferred(pcnRows[rowNum]),
                                                              pcnRows[rowNum]))
            /\ qResult' = result.pool
            /\ sIn' = [row |-> pcnRows'[rowNum], found |-> result.altLoincs,
                       allMatches |-> PerUnit(Len(UnitsToTry(pcnRows[rowNum])), result.altLoincs)]
            /\ hist' = [hist EXCEPT ![rowNum].matcherCalled = TRUE,
                                    ![rowNum].accepted = result.altLoincs # <<>>]
            /\ IF result.altLoincs = <<>>
               THEN NextRuleRow
               ELSE pc' = "selectBestMatch" /\ rowNum' = rowNum
  /\ UNCHANGED <<loincPartIndexex, pass, qParts, mCtx, mStatus, sOut>>

\* the rest of the forEach body: selectBestMatch, and the suggestion is
\* written to the row
SelectAndWrite ==
  /\ pc = "selectBestMatch"
  /\ \E selected \in {selectBestMatch(sIn.allMatches, pcnRows[rowNum])} :
       /\ sOut' = selected
       /\ pcnRows' = [pcnRows EXCEPT ![rowNum] = WriteSuggestion(@, selected.best, selected.rest)]
  /\ NextRuleRow
  /\ UNCHANGED <<loincToParts, loincPartIndexex, pass, qParts, qResult, mCtx, mStatus, sIn, hist>>

\* pcnRows.forEach(row => reformatValuesToString(row)); return pcnRows
Reformat ==
  /\ pc = "reformatValuesToString"
  /\ pcnRows' = [k \in 1..Len(pcnRows) |-> reformatValuesToString(pcnRows[k])]
  /\ hist' = [k \in 1..Len(hist) |->
                IF pass = 1 THEN [hist[k] EXCEPT !.first = Outputs(pcnRows'[k])] ELSE hist[k]]
  /\ pc' = "done"
  /\ UNCHANGED <<loincToParts, loincPartIndexex, rowNum, pass, qParts, qResult, mCtx, mStatus, sIn, sOut>>

\* validateAndSuggest is called again, on the rows it returned
Rerun ==
  /\ pc = "done"
  /\ pass < MaxPasses
  /\ pass' = pass + 1
  /\ pc' = "addLoincPartsFillMissingColumns"
  /\ hist' = [k \in 1..Len(hist) |->
                [hist[k] EXCEPT !.inferCalled = FALSE, !.matcherCalled = FALSE, !.accepted = FALSE]]
  /\ UNCHANGED <<loincToParts, loincPartIndexex, pcnRows, rowNum, qParts, qResult, mCtx, mStatus,
                 sIn, sOut>>

Next ==
  FillColumns \/ PreProcess \/ Infer \/ ExecuteRulesForRecord \/ SelectAndWrite \/ Reformat \/ Rerun

Spec == Init /\ [][Next]_vars

\* ALGO_JUDGEMENT of row k
Judgement(rows, k) == rows[k].ALGO_JUDGEMENT

\* rows 1..k have got their initial status in this pass
PreProcessed(k) ==
  /\ k \in 1..Len(pcnRows)
  /\ pc # "addLoincPartsFillMissingColumns"
  /\ (pc = "preProcess" => k < rowNum)
  /\ (pc \in Range(InferSteps) => k <= rowNum)

\* C7: with the catalog loaded once, validateAndSuggest run again on its own
\* output gives every record the ALGO_JUDGEMENT, ALGO_MAPPING_ISSUES, inferred,
\* inferred_parts, parsed_parts and SGG_ columns the first run gave it, and
\* two identical records of a batch get identical values of these columns.
C7_Deterministic ==
  pc = "done" =>
    /\ \A k \in 1..Len(pcnRows) : Outputs(pcnRows[k]) = hist[k].first
    /\ \A j, k \in 1..Len(pcnRows) :
         hist[j].raw = hist[k].raw => Outputs(pcnRows[j]) = Outputs(pcnRows[k])

\* the second run has ended on a batch of a record whose SPECIMEN_SOURCE the
\* first run rewrote and for which it suggested a code, twice
C7_Witness ==
  /\ pc = "done"
  /\ pass = 2
  /\ Len(pcnRows) = 2
  /\ hist[1].raw = hist[2].raw
  /\ pcnRows[1].SPECIMEN_SOURCE # hist[1].raw.SPECIMEN_SOURCE
  /\ pcnRows[2].ALGO_JUDGEMENT = "FIXED"
  /\ hist[2].first.ALGO_JUDGEMENT = "FIXED"

\* one step of a judgement: INCORRECT_aj stays or becomes FIXED, FIXED is
\* entered from INCORRECT_aj only and is not left
Forward(before, after) ==
  /\ before = "INCORRECT_aj" => after \in {"INCORRECT_aj", "FIXED"}
  /\ (after = "FIXED" /\ before # "FIXED") => before = "INCORRECT_aj"
  /\ before = "FIXED" => after = "FIXED"

\* C8: within a pass (a record's pass begins with the step that clears its
\* computed fields and gives it its initial status) no step takes a record's
\* ALGO_JUDGEMENT from INCORRECT_aj back to CORRECT_aj, FIXED is reached only
\* from INCORRECT_aj, and no step changes the judgement of a FIXED record.
C8_JudgementForward ==
  [][\A k \in 1..Len(pcnRows) :
       \/ pc = "preProcess" /\ k = rowNum
       \/ Forward(Judgement(pcnRows, k), Judgement(pcnRows', k))]_vars

\* a record two checks flagged has been FIXED in the first pass
C8_Witness ==
  /\ pass = 1
  /\ pc = "reformatValuesToString"
  /\ \E k \in 1..Len(pcnRows) :
       /\ pcnRows[k].ALGO_JUDGEMENT = "FIXED"
       /\ Len(pcnRows[k].ALGO_MAPPING_ISSUES) >= 2

\* C9: at the end of a pass a record is FIXED if and only if the matcher
\* accepted a candidate for it; every flagged record that is not excluded is
\* FIXED or INCORRECT_aj; a FIXED record has a non-empty SGG_LOINC; a record
\* left INCORRECT_aj has empty SGG_LOINC, SGG_LONG_COMMON_NAME and SGG_OTHER.
C9_FixedIffAccepted ==
  pc = "done" =>
    \A k \in 1..Len(pcnRows) :
      /\ pcnRows[k].ALGO_JUDGEMENT = "FIXED" <=> hist[k].accepted
      /\ (~isExcludeStatus(pcnRows[k]) /\ Truthy(pcnRows[k].ALGO_MAPPING_ISSUES))
           => pcnRows[k].ALGO_JUDGEMENT \in {"FIXED", "INCORRECT_aj"}
      /\ pcnRows[k].ALGO_JUDGEMENT = "FIXED" => Truthy(pcnRows[k].SGG_LOINC)
      /\ pcnRows[k].ALGO_JUDGEMENT = "INCORRECT_aj"
           => /\ ~Truthy(pcnRows[k].SGG_LOINC)
              /\ ~Truthy(pcnRows[k].SGG_LONG_COMMON_NAME)
              /\ ~Truthy(pcnRows[k].SGG_OTHER)

\* a pass has ended with one record FIXED and another for which the matcher
\* was called and accepted nothing
C9_Witness ==
  /\ pc = "done"
  /\ \E j, k \in 1..Len(pcnRows) :
       /\ pcnRows[j].ALGO_JUDGEMENT = "FIXED"
       /\ hist[j].accepted
       /\ pcnRows[k].ALGO_JUDGEMENT = "INCORRECT_aj"
       /\ hist[k].matcherCalled
       /\ ~hist[k].accepted

\* the exclusion status of a record as read: its code is not in the catalog;
\* else its name is empty or has no letter; else its category is 'non qn'
ExclusionOf(raw) ==
  IF ~\E i \in 1..Len(LoincTable) : LoincTable[i].LOINC_NUM = raw.LAB_LOINC
  THEN "WACKO_INVALID_LOINC"
  ELSE IF raw.RAW_LAB_NAME = Empty \/ NoLetter(raw.RAW_LAB_NAME) THEN "WACKO_NUMERIC_RAW_NAME"
  ELSE IF raw.INC_CATEGORY = T("non qn") THEN "NON_QN"
  ELSE "none"

\* C10: a record whose code is not in the catalog, whose name is empty or
\* without a letter, or whose category is 'non qn' has, from its initial
\* status to the end of the pass, the judgement WACKO_INVALID_LOINC,
\* WACKO_NUMERIC_RAW_NAME or NON_QN (the first that applies), empty mapping
\* issues, inferred parts and suggestions, and neither inferAndValidate nor
\* the matcher is called for it; and the pass ends with every other record
\* of the batch having gone through inferAndValidate.
C10_ExclusionTerminal ==
  \A k \in 1..Len(pcnRows) :
    /\ (PreProcessed(k) /\ ExclusionOf(hist[k].raw) # "none")
         => /\ pcnRows[k].ALGO_JUDGEMENT = ExclusionOf(hist[k].raw)
            /\ ~hist[k].inferCalled
            /\ ~hist[k].matcherCalled
            /\ ~Truthy(pcnRows[k].ALGO_MAPPING_ISSUES)
            /\ pcnRows[k].inferred = <<>>
            /\ ~Truthy(pcnRows[k].inferred_parts)
            /\ ~Truthy(pcnRows[k].parsed_parts)
            /\ ~Truthy(pcnRows[k].SGG_LOINC)
            /\ ~Truthy(pcnRows[k].SGG_LONG_COMMON_NAME)
            /\ ~Truthy(pcnRows[k].SGG_OTHER)
    /\ (pc = "done" /\ ExclusionOf(hist[k].raw) = "none")
         => /\ hist[k].inferCalled
            /\ pcnRows[k].ALGO_JUDGEMENT \in {"CORRECT_aj", "INCORRECT_aj", "FIXED"}

\* a pass has ended on a batch whose first record has a name without a letter
\* and the category 'non qn', and whose second record has been FIXED
C10_Witness ==
  /\ pc = "done"
  /\ Len(pcnRows) = 2
  /\ hist[1].raw.INC_CATEGORY = T("non qn")
  /\ pcnRows[1].ALGO_JUDGEMENT = "WACKO_NUMERIC_RAW_NAME"
  /\ pcnRows[2].ALGO_JUDGEMENT = "FIXED"

-----------------------------------------------------------------------------
(* Scenarios of single records, at the end of a pass of the pipeline       *)

\* the entry of the catalog, as loaded, a record is assigned to
AssignedEntry(raw) == LoincEntry(LoincTable, raw.LAB_LOINC)

\* the record as read is assigned to a serum entry, its raw name has the word
\* URINE and it is not excluded
SerumRecordNamedUrine(raw) ==
  /\ ExclusionOf(raw) = "none"
  /\ First(AssignedEntry(raw).SYSTEM) \in {T("Ser/Plas"), T("Ser")}
  /\ First(AssignedEntry(raw).CLASS) # T("ALLERGY")
  /\ Includes(raw.RAW_LAB_NAME, "URINE")

\* the codes of the catalog entries that are the assigned entry of the record
\* on every part type but SYSTEM, with SYSTEM 'Urine'
UrineTwins(raw) ==
  {LoincTable[i].LOINC_NUM : i \in {j \in 1..Len(LoincTable) :
      /\ First(LoincTable[j].SYSTEM) = T("Urine")
      /\ \A pt \in PartTypes \ {"SYSTEM"} : LoincTable[j][pt] = AssignedEntry(raw)[pt]}}

\* the code is the SGG_LOINC of the row or one of its SGG_OTHER
Suggested(row, loinc) ==
  row.SGG_LOINC = loinc \/ Contains(row.SGG_OTHER, loinc \o <<":{">>)

\* what scenario A says of row k at the end of a pass
ScenarioA(k) ==
  /\ Includes(InferredNames(pcnRows[k], "SYSTEM"), T("Urine"))
  /\ Contains(pcnRows[k].ALGO_MAPPING_ISSUES, T("SYSTEM"))
  /\ pcnRows[k].ALGO_JUDGEMENT \in {"INCORRECT_aj", "FIXED"}
  /\ \A twin \in UrineTwins(hist[k].raw) :
       /\ pcnRows[k].ALGO_JUDGEMENT = "FIXED"
       /\ Suggested(pcnRows[k], twin)

NoClue(row) ==
  /\ ~Truthy(getAdjustedComponentByModifier(row).component)
  /\ extractSpecimen(row) = <<>>
  /\ ~(row.SYSTEM \in BldSystems /\ row.CLASS = T("HEM/BC"))
  /\ extractTime(row.RAW_UNIT, "RAW_UNIT") = <<>>
  /\ extractTime(row.RAW_LAB_NAME, "RAW_LAB_NAME") = <<>>
  /\ ~(row.CLASS = T("UA") /\ extractHpfLpf(row.RAW_UNIT) # "")
  /\ CDNumber(row.RAW_LAB_NAME) = ""
  /\ ~(row.SYSTEM = T("Urine") /\ row.PROPERTY = T("SRto"))

\* row k is not excluded and no check has raised an issue for it
NoDisagreement(k) ==
  /\ ExclusionOf(hist[k].raw) = "none"
  /\ ~Truthy(pcnRows[k].ALGO_MAPPING_ISSUES)

NoSuggestion(row) ==
  /\ ~Truthy(row.SGG_LOINC)
  /\ ~Truthy(row.SGG_LONG_COMMON_NAME)
  /\ ~Truthy(row.SGG_OTHER)

NoInferredAttributes(row) ==
  /\ row.inferred = <<>>
  /\ ~Truthy(row.parsed_parts)
  /\ ~Truthy(row.inferred_parts)

NotAssigned(row, partType) == ~Includes(InferredNames(row, partType), row[partType])

-----------------------------------------------------------------------------
(* The catalog while records are processed                                 *)

\* every part list of every entry holds at most one name
SingleValued(l2p) ==
  \A i \in 1..Len(l2p) : \A partType \in PartTypes : Len(l2p[i][partType]) <= 1

\* C14: processing records leaves every entry of loincToParts as it was
\* loaded, so each entry holds at most one name per part type: building the
\* target term in replaceAndFind adds no synonym to the part lists of the
\* assigned entry.
C14_CatalogImmutable ==
  /\ loincToParts = LoincTable
  /\ SingleValued(loincToParts)

\* the row validateAndSuggest returns for a record that is the whole batch,
\* with the catalog as loaded
AloneRow(raw) ==
  LET row == ProcessedRow(LoincTable, loincPartIndexex, raw, 1)
  IN IF ~CallsReplaceAndFind(row) THEN reformatValuesToString(row)
     ELSE LET result == replaceAndFind(LoincTable, loincPartIndexex, row.LAB_LOINC,
                                       getAltPartsFromInferred(row), row)
              units == Len(UnitsToTry(row))
              tried == [row EXCEPT !.TARGET_TERM = [u \in 1..units |-> result.targetTerm]]
          IN IF result.altLoincs = <<>> THEN reformatValuesToString(tried)
             ELSE LET selected == selectBestMatch(PerUnit(units, result.altLoincs), tried)
                  IN reformatValuesToString(WriteSuggestion(tried, selected.best, selected.rest))

\* what a record ends a pass with: judgement, issues, inferred parts, target
\* term, relaxations and suggestions
Outcome(row) ==
  [outputs |-> Outputs(row), TARGET_TERM |-> row.TARGET_TERM, RULE_RELAXED_BY |-> row.RULE_RELAXED_BY]

\* every record of the batch has ended the pass as it does alone
SameAsAlone ==
  pc = "done" => \A k \in 1..Len(pcnRows) : Outcome(pcnRows[k]) = Outcome(AloneRow(hist[k].raw))

\* the catalog entries replaceAndFind last took from the pool as candidates
\* are as they were loaded: nothing written for one record is read for another
CandidatesAsLoaded ==
  \A i \in 1..Len(qResult) :
    qResult[i] # sIn.row.LAB_LOINC
      => LoincEntry(loincToParts, qResult[i]) = LoincEntry(LoincTable, qResult[i])

\* C15: a record ends the pass with the judgement, mapping issues, inferred
\* parts, target term, relaxations and suggestions it ends with as a batch of
\* its own, whatever the other records of the batch and their order, and
\* nothing written while one record is processed is read while another is.
C15_RecordsIndependent ==
  /\ SameAsAlone
  /\ CandidatesAsLoaded

-----------------------------------------------------------------------------
(* Suggestions                                                             *)

\* C16: in every state, for every record, SGG_LOINC is not the LAB_LOINC of
\* the record and no alternate of SGG_OTHER has it.
C16_NeverSuggestsAssigned ==
  \A k \in 1..Len(pcnRows) :
    Truthy(pcnRows[k].LAB_LOINC) => ~Suggested(pcnRows[k], pcnRows[k].LAB_LOINC)

\* a record whose assigned entry was in the pool replaceAndFind checked for
\* it has been FIXED
C16_Witness ==
  /\ pc = "reformatValuesToString"
  /\ qResult # <<>>
  /\ \E k \in 1..Len(pcnRows) :
       /\ sIn.row.ROW_NUM = pcnRows[k].ROW_NUM
       /\ Includes(qResult, pcnRows[k].LAB_LOINC)
       /\ pcnRows[k].ALGO_JUDGEMENT = "FIXED"
       /\ Truthy(pcnRows[k].SGG_LOINC)

-----------------------------------------------------------------------------
(* The configuration specification: labNameParser.js is loaded with a list *)
(* of extraction rules, each one mapped by                                  *)
(* defaultLoincPartExtractionConfigMapper as the module is evaluated; only  *)
(* a module that was loaded parses the names of records.                    *)

\* most rules in a configuration
MaxRules == 2

\* the patterns a rule is written with: none, a single string, a list
RulePatterns == {<<>>, << <<"Bld">> >>, << <<"URINE">>, <<"SERUM">> >>}

\* the rules a configuration is made of: with and without pattern, partName,
\* regex and extract
RuleVariants ==
  {[RawRule(pattern, Len(pattern) = 1, partName, <<>>, "", "", FALSE)
      EXCEPT !.regex = regex, !.extract = ext] :
     pattern \in RulePatterns, partName \in {Empty, T("Urine")},
     regex \in BOOLEAN, ext \in BOOLEAN}

\* the rows of the pool the loaded module is tried on: a name with SERUM, one
\* with URINE, one with neither and a unit per 24 hr, one without name, one
\* with URINE and RANDOM, one with URINE and SERUM
ConfigRows == {1, 2, 4, 8, 20, 23}

\* the configurations the module is loaded with: rules of RuleVariants, or
\* one of the two lists of the source
Configurations ==
  {[partType |-> "SYSTEM", rules |-> rules] :
     rules \in UNION {[1..n -> RuleVariants] : n \in 1..MaxRules}}
  \cup {[partType |-> "SYSTEM", rules |-> specimenExtractorsConfig],
        [partType |-> "TIME", rules |-> timeExtractorsConfig]}

\* the module is about to be evaluated: qParts is the list of rules not yet
\* mapped, qResult the extractors so far, hist what the mapper was given and
\* what came of it
InitConfig ==
  /\ loincToParts = LoincTable
  /\ loincPartIndexex = <<>>
  /\ \E config \in Configurations :
       /\ qParts = config.rules
       /\ mCtx = [partType |-> config.partType]
  /\ qResult = <<>>
  /\ hist = <<>>
  /\ pc = "c_load"
  /\ pcnRows = <<>>
  /\ rowNum = 0
  /\ pass = 0
  /\ mStatus = <<>>
  /\ sIn = NoCtx
  /\ sOut = <<>>

\* [...].map(mapping => defaultLoincPartExtractionConfigMapper(partType,
\* mapping)), one rule: the entry is kept, or the error ends the evaluation
\* of the module
MapRule ==
  /\ pc = "c_load"
  /\ qParts # <<>>
  /\ \E entry \in {defaultLoincPartExtractionConfigMapper(mCtx.partType, Head(qParts))} :
       /\ hist' = Append(hist, [raw |-> Head(qParts), entry |-> entry])
       /\ IF entry.error
          THEN /\ pc' = "c_aborted"
               /\ UNCHANGED <<qParts, qResult>>
          ELSE /\ qParts' = Tail(qParts)
               /\ qResult' = Append(qResult, entry)
               /\ pc' = IF Tail(qParts) = <<>> THEN "c_loaded" ELSE "c_load"
  /\ UNCHANGED <<loincToParts, loincPartIndexex, pcnRows, rowNum, pass, mCtx, mStatus, sIn, sOut>>

\* the selectors runExtractors is called with; "" is none
Selectors == {"", "RAW_LAB_NAME", "RAW_UNIT"}

\* extractSpecimen / extractTime for a record: runExtractors on its name or
\* its unit, with the extractors of the module and a selector or none; the
\* call leaves the module as it was, so one call is followed
ExtractFromRecord ==
  /\ pc = "c_loaded"
  /\ \E i \in ConfigRows, source \in {"RAW_LAB_NAME", "RAW_UNIT"}, selector \in Selectors :
       \E row \in {addLoincPartsFillMissingColumns(loincToParts, RowPool[i], rowNum + 1)} :
         /\ pcnRows' = <<row>>
         /\ sIn' = [text |-> row[source], lnClass |-> row.CLASS, selector |-> selector]
         /\ sOut' = runExtractors(row[source], qResult, row.CLASS, selector)
  /\ rowNum' = rowNum + 1
  /\ pc' = "c_parsed"
  /\ UNCHANGED <<loincToParts, loincPartIndexex, pass, qParts, qResult, mCtx, mStatus, hist>>

NextConfig == MapRule \/ ExtractFromRecord

SpecConfig == InitConfig /\ [][NextConfig]_vars

\* the rule has neither a pattern nor a regex
NeitherPatternNorRegex(raw) == raw.pattern = <<>> /\ ~raw.regex

\* the rule has no partName and its pattern is not a single string
NoPartNameNorSinglePattern(raw) ==
  raw.partName = Empty /\ ~(raw.pattern # <<>> /\ raw.patternIsString)

\* C17: defaultLoincPartExtractionConfigMapper raises an error for a rule
\* with neither pattern nor regex and for a rule with no partName whose
\* pattern is not a single string; any other rule gets an entry with a regex
\* (its own, or generated when it has none) and an extract function (its own,
\* or the default when it has none); once a rule has raised the error the
\* module is not loaded and no record is ever processed.
C17_MalformedRuleFatal ==
  /\ \A k \in 1..Len(hist) :
       LET raw == hist[k].raw
           entry == hist[k].entry
       IN /\ entry.error <=> (NeitherPatternNorRegex(raw) \/ NoPartNameNorSinglePattern(raw))
          /\ ~entry.error =>
               /\ {"regex", "extract"} \subseteq DOMAIN entry
               /\ entry.regex = (IF raw.regex THEN "own" ELSE "generated")
               /\ entry.extract = (IF raw.extract THEN "own" ELSE "default")
  /\ (\E k \in 1..Len(hist) : hist[k].entry.error) => pc = "c_aborted"
  /\ pc = "c_aborted" => pcnRows = <<>> /\ sOut = <<>>
  /\ pcnRows # <<>> => qParts = <<>> /\ \A k \in 1..Len(hist) : ~hist[k].entry.error

\* a rule with a pattern and its own extract was given a generated regex,
\* and the next rule, with a regex and a list of patterns but no partName,
\* raised the error
C17_Witness ==
  /\ pc = "c_aborted"
  /\ Len(hist) = 2
  /\ ~hist[1].entry.error
  /\ hist[1].raw.extract /\ hist[1].entry.regex = "generated"
  /\ hist[2].entry.error
  /\ hist[2].raw.regex /\ Len(hist[2].raw.pattern) = 2 /\ hist[2].raw.partName = Empty

-----------------------------------------------------------------------------
(* Scenarios of the unit: a collection time, a percentage                  *)

\* a record that is not excluded, with raw unit "24 HR" and an assigned
\* PROPERTY ending in Cnc
Unit24HrOfCnc(raw) ==
  /\ ExclusionOf(raw) = "none"
  /\ raw.RAW_UNIT = <<"24", " ", "HR">>
  /\ EndsWithCnc(First(AssignedEntry(raw).PROPERTY))

\* C18: a record that is not excluded, with raw unit "24 HR" and an assigned
\* PROPERTY ending in Cnc, ends the pass with TIME 24H and PROPERTY with Rat
\* for Cnc among its inferred parts, and with the TIME issue raised when the
\* assigned TIME is not 24H.
C18_ScenarioB ==
  pc = "done" =>
    \A k \in 1..Len(pcnRows) :
      Unit24HrOfCnc(hist[k].raw) =>
        /\ Includes(InferredNames(pcnRows[k], "TIME"), <<"24", "H">>)
        /\ Includes(InferredNames(pcnRows[k], "PROPERTY"),
                    ToRat(First(AssignedEntry(hist[k].raw).PROPERTY)))
        /\ First(AssignedEntry(hist[k].raw).TIME) # <<"24", "H">>
             => Contains(pcnRows[k].ALGO_MAPPING_ISSUES, T("TIME"))

\* the percent-compatible properties registered for the class of the row
PctPropsOf(row) == Range(getPctUnitPropertiesByClass(LoincTable, row.CLASS))

\* the PROPERTY names among the inferred parts of the row
InferredProperties(row) == Range(InferredNames(row, "PROPERTY"))

\* C19 as stated: a record that is not excluded and whose raw unit contains
\* '%' ends the pass with no inferred PROPERTY outside the percent-compatible
\* properties registered for its class.
C19_ScenarioC_AnyCheck ==
  pc = "done" =>
    \A k \in 1..Len(pcnRows) :
      (ExclusionOf(hist[k].raw) = "none" /\ Contains(pcnRows[k].RAW_UNIT, T("%")))
        => InferredProperties(pcnRows[k]) \subseteq PctPropsOf(pcnRows[k])

\* C19, amended: for a record that is not excluded, whose raw unit contains
\* '%' and whose raw name does not contain INTERPRETATION, every PROPERTY
\* that inferScaleAndProperty adds to the inferred parts is one of the
\* percent-compatible properties registered for the class of the record; the
\* properties of the unit forms that are not registered for the class are
\* not added by it.
C19_ScenarioC ==
  [][(/\ pc = "inferScaleAndProperty"
      /\ Contains(pcnRows[rowNum].RAW_UNIT, T("%"))
      /\ ~Contains(pcnRows[rowNum].RAW_LAB_NAME, T("INTERPRETATION")))
     => (InferredProperties(pcnRows'[rowNum]) \ InferredProperties(pcnRows[rowNum]))
           \subseteq PctPropsOf(pcnRows[rowNum])]_vars

\* inferScaleAndProperty has just added RelACnc for a record of class COAG
\* with unit '%' and assigned PROPERTY ACnc, which the unit implies and the
\* list of COAG leaves out
C19_Witness ==
  /\ pc = "inferWithHfpLpf"
  /\ Contains(pcnRows[rowNum].RAW_UNIT, T("%"))
  /\ pcnRows[rowNum].CLASS = T("COAG")
  /\ pcnRows[rowNum].PROPERTY = T("ACnc")
  /\ Includes(getUnitProperties(T("%")), T("ACnc"))
  /\ InferredNames(pcnRows[rowNum], "PROPERTY") = <<T("RelACnc")>>

-----------------------------------------------------------------------------
(* The order of the suggestions                                            *)

\* the match agrees with the row on all seven part types: the candidate that
\* gets the +50 of selectBestMatch
FullMatch(m, row) == MatchedParts(m, row) = Len(PartTypeList)

\* C20: whenever the list of accepted matches given to selectBestMatch holds
\* a match that agrees with the row on all seven part types, the primary it
\* returns is such a match.
C20_FullMatchFirst ==
  pc \in {"s_selected", "s_written"} =>
    ((\E k \in 1..Len(sIn.allMatches) : FullMatch(sIn.allMatches[k], sIn.row))
       => FullMatch(sOut.best, sIn.row))

-----------------------------------------------------------------------------
(* What runExtractors returns                                              *)

\* the rules of the loaded module that fire for the text runExtractors was
\* given: the ones the selector lets through whose extract() yields a name
FiredRules ==
  {k \in 1..Len(qResult) :
     /\ (sIn.selector = "" \/ qResult[k].selector = sIn.selector)
     /\ Truthy(extract(qResult[k], sIn.text, sIn.lnClass))}

\* C21: runExtractors returns one result per rule that fires, in the order of
\* the configuration: the n-th result is the name and pattern of the n-th
\* rule that fires, also when an earlier rule gave the same name; rules that
\* do not carry the selector given contribute nothing, and an empty text
\* gives the empty list.
C21_EveryHitInOrder ==
  pc = "c_parsed" =>
    /\ ~Truthy(sIn.text) => sOut = <<>>
    /\ Truthy(sIn.text) =>
         /\ Len(sOut) = Cardinality(FiredRules)
         /\ \A k \in FiredRules :
              LET n == Cardinality({j \in FiredRules : j <= k})
              IN /\ sOut[n].value = extract(qResult[k], sIn.text, sIn.lnClass)
                 /\ sOut[n].pattern = qResult[k].pattern
                 /\ sOut[n].type = qResult[k].type
    /\ sIn.selector # "" =>
         Len(sOut) <= Cardinality({k \in 1..Len(qResult) : qResult[k].selector = sIn.selector})

\* two rules have fired for one name and given the same part name twice
C21_Witness ==
  /\ pc = "c_parsed"
  /\ Len(sOut) = 2
  /\ sOut[1].value = sOut[2].value
  /\ sIn.selector = ""

-----------------------------------------------------------------------------
(* SYSTEM relaxation of matchPart, on the candidates of SpecMatch.          *)

\* the candidate in hand
Candidate == LoincEntry(loincToParts, mCtx.candidate)

\* the exact rule of matchPart does not accept the part type: the target is
\* not null, not both sides are empty, no target value is a candidate value
NotExact(partType) ==
  /\ ~mCtx.target[partType].isNull
  /\ ~(mCtx.target[partType].names = <<>> /\ Candidate[partType] = <<>>)
  /\ ~\E k \in 1..Len(mCtx.target[partType].names) :
         Includes(Candidate[partType], mCtx.target[partType].names[k])

\* the candidate's SYSTEM is compatible with a target SYSTEM value
CompatibleWithTarget ==
  \E k \in 1..Len(mCtx.target.SYSTEM.names) :
     partsCompatible("SYSTEM", mCtx.target.SYSTEM.names[k], First(Candidate.SYSTEM), mCtx.row.CLASS)

\* the candidate's SYSTEM is compatible with the record's specimen hint or
\* with the default specimen of the record's class
CompatibleWithHintOrDefault ==
  \/ partsCompatible("SYSTEM", mCtx.row.SPECIMEN_SOURCE, First(Candidate.SYSTEM), mCtx.row.CLASS)
  \/ partsCompatible("SYSTEM", getDefaultSpecimen(mCtx.row.CLASS), First(Candidate.SYSTEM),
                     mCtx.row.CLASS)

\* matchPart on SYSTEM for the candidate in hand (the level plays no part)
SystemMatch == matchPart(mCtx.row, "SYSTEM", mCtx.target, Candidate, 0)

\* C22 as stated: a candidate whose SYSTEM is not a member of the target
\* SYSTEM values is accepted with tag 'matched-with-default-specimen' when
\* its SYSTEM is compatible with the record's specimen hint or the default
\* specimen of the record's class, and with tag 'specimen-xxx-match-waived'
\* when its SYSTEM is 'XXX'.
C22_DefaultSpecimenAccepted ==
  (pc = "m_cand" /\ NotExact("SYSTEM")) =>
    /\ CompatibleWithHintOrDefault =>
          SystemMatch = [matched |-> TRUE, relax |-> "matched-with-default-specimen"]
    /\ (First(Candidate.SYSTEM) = T("XXX") /\ ~CompatibleWithHintOrDefault) =>
          SystemMatch = [matched |-> TRUE, relax |-> "specimen-xxx-match-waived"]

\* C22: a candidate whose SYSTEM is not a member of the target SYSTEM values
\* is accepted without a tag when its SYSTEM is compatible with a target
\* SYSTEM value, else with tag 'specimen-xxx-match-waived' when its SYSTEM is
\* 'XXX', else it is a mismatch, whatever the record's specimen hint and the
\* default specimen of its class: the tag 'matched-with-default-specimen' is
\* never recorded.
C22_SystemRelaxation ==
  (pc = "m_cand" /\ NotExact("SYSTEM")) =>
    /\ CompatibleWithTarget => SystemMatch = [matched |-> TRUE, relax |-> ""]
    /\ (~CompatibleWithTarget /\ First(Candidate.SYSTEM) = T("XXX")) =>
          SystemMatch = [matched |-> TRUE, relax |-> "specimen-xxx-match-waived"]
    /\ (~CompatibleWithTarget /\ First(Candidate.SYSTEM) # T("XXX")) => ~SystemMatch.matched
    /\ \A k \in 1..Len(mStatus) : ~Includes(mStatus[k].relaxations, "matched-with-default-specimen")

\* a candidate whose SYSTEM is XXX, not compatible with a target value,
\* accepted by isAltLoinc with the waiver
C22_Witness ==
  /\ pc = "m_cand" /\ NotExact("SYSTEM") /\ Len(mStatus) >= 1
  /\ ~CompatibleWithTarget /\ First(Candidate.SYSTEM) = T("XXX")
  /\ mStatus[1].matched /\ Includes(mStatus[1].relaxations, "specimen-xxx-match-waived")

-----------------------------------------------------------------------------
(* METHOD and CLASS relaxation of matchPart, on the candidates of SpecMatch. *)

Levels == 0..maxRelaxLevel

\* matchPart on a part type for the candidate in hand at a level
PartMatch(partType, level) == matchPart(mCtx.row, partType, mCtx.target, Candidate, level)

Accepted(tag) == [matched |-> TRUE, relax |-> tag]

Mismatch == [matched |-> FALSE, relax |-> ""]

\* C23 as stated: when METHOD does not match exactly, at level 0 it is a
\* mismatch; at level 1 it is accepted only if the candidate has no method,
\* with tag 'METHOD-empty-ok'; at every level > 1 it is always accepted and
\* the tag recorded is 'METHOD-match-waived'.  CLASS is waived (tag
\* 'CLASS-match-waived') only at level 3.
C23_MethodWaivedAboveOne ==
  pc = "m_cand" =>
    /\ NotExact("METHOD") =>
          /\ PartMatch("METHOD", 0) = Mismatch
          /\ PartMatch("METHOD", 1) =
                IF Candidate.METHOD = <<>> THEN Accepted("METHOD-empty-ok") ELSE Mismatch
          /\ \A level \in Levels : level > 1 =>
                PartMatch("METHOD", level) = Accepted("METHOD-match-waived")
    /\ NotExact("CLASS") =>
          \A level \in Levels :
             PartMatch("CLASS", level) =
               IF level = 3 THEN Accepted("CLASS-match-waived") ELSE Mismatch

\* C23: when METHOD does not match exactly, at level 0 it is a mismatch; at
\* level 1 it is accepted only if the candidate has no method, with tag
\* 'METHOD-empty-ok'; at every level > 1 it is always accepted, and the tag
\* recorded is 'METHOD-empty-ok' when the candidate has no method and
\* 'METHOD-match-waived' when it has one.  CLASS is waived (tag
\* 'CLASS-match-waived') only at level 3.
C23_MethodClassRelaxation ==
  pc = "m_cand" =>
    /\ NotExact("METHOD") =>
          /\ PartMatch("METHOD", 0) = Mismatch
          /\ PartMatch("METHOD", 1) =
                IF Candidate.METHOD = <<>> THEN Accepted("METHOD-empty-ok") ELSE Mismatch
          /\ \A level \in Levels : level > 1 =>
                PartMatch("METHOD", level) =
                  IF Candidate.METHOD = <<>> THEN Accepted("METHOD-empty-ok")
                  ELSE Accepted("METHOD-match-waived")
          /\ \A k \in 1..Len(mStatus) :
                (mStatus[k].matched /\ Candidate.METHOD = <<>>) =>
                   /\ Includes(mStatus[k].relaxations, "METHOD-empty-ok")
                   /\ ~Includes(mStatus[k].relaxations, "METHOD-match-waived")
    /\ NotExact("CLASS") =>
          \A level \in Levels :
             PartMatch("CLASS", level) =
               IF level = 3 THEN Accepted("CLASS-match-waived") ELSE Mismatch

\* isAltLoinc started at level 2 accepts a candidate without method for a
\* target with one and reports 'METHOD-empty-ok'
C23_Witness ==
  /\ pc = "m_cand" /\ Len(mStatus) >= 3
  /\ NotExact("METHOD") /\ Candidate.METHOD = <<>>
  /\ mStatus[3].matched /\ mStatus[3].level = 2
  /\ Includes(mStatus[3].relaxations, "METHOD-empty-ok")

-----------------------------------------------------------------------------
(* The target term of replaceAndFind, on the rows of SpecMatch.            *)

\* the record has replacement values for the part type: names were inferred
\* for it and they are not just the value the record is mapped to
HasReplacement(row, partType) ==
  \E i \in 1..Len(row.inferred) :
     /\ row.inferred[i].part = partType
     /\ row.inferred[i].names # <<row[partType]>>

\* names is base followed, without repetition, by the synonyms of the names
\* of base that base does not hold
SynonymExpanded(partType, base, names) ==
  /\ Len(names) >= Len(base) /\ SubSeq(names, 1, Len(base)) = base
  /\ \A i, j \in (Len(base) + 1)..Len(names) : names[i] = names[j] => i = j
  /\ Range(names) = Range(base) \cup
                      UNION {Range(getPartSynonyms(partType, base[i])) : i \in 1..Len(base)}

\* C24: for each of the seven part types, the target is null (skip) when the
\* replacements request skipping, else the synonym-expanded replacement
\* values when the record has replacement values for that type, else the
\* synonym-expanded value of the assigned entry (empty when the entry has
\* none); SYSTEM is null exactly when the record's SYSTEM is 'XXX' and
\* there is no SYSTEM replacement, and no other part type is ever null.
C24_TargetProfile ==
  pc \in {"m_pool", "m_cand"} =>
    \A partType \in PartTypes :
       LET target == mCtx.target[partType]
           skip == partType = "SYSTEM" /\ mCtx.row.SYSTEM = T("XXX")
                     /\ ~HasReplacement(mCtx.row, "SYSTEM")
       IN /\ target.isNull <=> skip
          /\ (~skip /\ HasReplacement(mCtx.row, partType)) =>
                SynonymExpanded(partType, InferredNames(mCtx.row, partType), target.names)
          /\ (~skip /\ ~HasReplacement(mCtx.row, partType)) =>
                SynonymExpanded(partType, LoincEntry(LoincTable, mCtx.row.LAB_LOINC)[partType],
                                target.names)

\* a target whose SYSTEM is the replacement with synonyms added and whose
\* COMPONENT is the assigned entry's
C24_Witness ==
  /\ pc = "m_pool"
  /\ HasReplacement(mCtx.row, "SYSTEM")
  /\ Len(mCtx.target.SYSTEM.names) > Len(InferredNames(mCtx.row, "SYSTEM"))
  /\ ~HasReplacement(mCtx.row, "COMPONENT")
  /\ mCtx.target.COMPONENT.names = <<mCtx.row.COMPONENT>>

-----------------------------------------------------------------------------
(* Inferred components and the catalog, on the rows of the pipeline.       *)

\* the COMPONENT values of the catalog entries
CatalogComponents == UNION {Range(loincToParts[i].COMPONENT) : i \in 1..Len(loincToParts)}

\* C25: every COMPONENT value placed in a record's inferred parts by an
\* inference check (component modifier, antibody subtype, creatinine ratio,
\* CD antibody rule) is the COMPONENT value of at least one catalog entry.
C25_ComponentsInCatalog ==
  \A n \in 1..Len(pcnRows) :
     \A k \in 1..Len(InferredNames(pcnRows[n], "COMPONENT")) :
        InferredNames(pcnRows[n], "COMPONENT")[k] \in CatalogComponents

-----------------------------------------------------------------------------
(* Judgement and mapping issues, on the rows of the pipeline.              *)

\* the tags of ALGO_MAPPING_ISSUES, as the list of a running pass or as the
\* text joined with '; ' at its end
IssueTags(row) == SelectSeq(row.ALGO_MAPPING_ISSUES, LAMBDA t : t # "; ")

\* C26: in every state after the initial classification of a record that is
\* not excluded, ALGO_JUDGEMENT is INCORRECT_aj or FIXED if and only if the
\* record's mapping issues are not empty, and CORRECT_aj if and only if they
\* are empty; no tag is in the issues twice.
C26_JudgementAndIssues ==
  \A k \in 1..Len(pcnRows) :
     (PreProcessed(k) /\ ~isExcludeStatus(pcnRows[k])) =>
        /\ pcnRows[k].ALGO_JUDGEMENT \in {"INCORRECT_aj", "FIXED"} <=> IssueTags(pcnRows[k]) # <<>>
        /\ pcnRows[k].ALGO_JUDGEMENT = "CORRECT_aj" <=> IssueTags(pcnRows[k]) = <<>>
        /\ NoDup(IssueTags(pcnRows[k]))

\* a pass has ended with a FIXED record of two issues and a CORRECT_aj one
C26_Witness ==
  /\ pc = "done"
  /\ \E j, k \in 1..Len(pcnRows) :
       /\ pcnRows[j].ALGO_JUDGEMENT = "FIXED" /\ Len(IssueTags(pcnRows[j])) >= 2
       /\ pcnRows[k].ALGO_JUDGEMENT = "CORRECT_aj" /\ IssueTags(pcnRows[k]) = <<>>

-----------------------------------------------------------------------------
(* METHOD and CLASS in isAltLoinc, on the candidates of SpecMatch.         *)

\* the part types no level relaxes
StrictParts == PartTypes \ Relaxable

\* the tags matchPart pushes for the candidate at a level, in the order of
\* the loop over the part types
TagsAt(level) ==
  SelectSeq([i \in 1..Len(PartTypeList) |-> PartMatch(PartTypeList[i], level).relax],
            LAMBDA tag : tag # "")

\* C27: a candidate whose COMPONENT, PROPERTY, TIME, SYSTEM and SCALE each
\* pass matchPart is accepted by isAltLoinc whatever its METHOD and CLASS,
\* at a level from 0 to 3 (at most four evaluations), from every start
\* level, and the relaxation tags returned are those matchPart pushed at the
\* level at which it was accepted.
C27_MethodClassNeverReject ==
  (pc = "m_cand" /\ \A partType \in StrictParts : PartMatch(partType, 0).matched) =>
    \A k \in 1..Len(mStatus) :
       /\ mStatus[k].matched
       /\ mStatus[k].level \in (k - 1)..maxRelaxLevel
       /\ mStatus[k].relaxations = TagsAt(mStatus[k].level)

\* a candidate that differs in METHOD and CLASS only, accepted at the fourth
\* evaluation with the two tags of level 3
C27_Witness ==
  /\ pc = "m_cand" /\ Len(mStatus) >= 1
  /\ \A partType \in StrictParts : PartMatch(partType, 0).matched
  /\ NotExact("METHOD") /\ NotExact("CLASS")
  /\ mStatus[1].matched /\ mStatus[1].level = 3
  /\ Len(mStatus[1].relaxations) = 2

-----------------------------------------------------------------------------
(* Relaxations and their tags, on the candidates of SpecMatch.             *)

\* the status of isAltLoinc reports a tag matchPart pushed for the part type
\* at the level of acceptance
Tagged(status, partType) ==
  /\ PartMatch(partType, status.level).relax # ""
  /\ Includes(status.relaxations, PartMatch(partType, status.level).relax)

\* C28: whenever isAltLoinc accepts a candidate whose value for a part type
\* is not an exact-rule match (target not null, not both empty, candidate
\* value not among the target values), the relaxations returned hold a tag
\* for that part type; so does a SYSTEM accepted through partsCompatible
\* only.
C28_EveryRelaxationTagged ==
  pc = "m_cand" =>
    \A k \in 1..Len(mStatus) :
       mStatus[k].matched =>
          \A partType \in PartTypes : NotExact(partType) => Tagged(mStatus[k], partType)

-----------------------------------------------------------------------------
(* The load specification: getLoincTableUtil is called several times in a  *)
(* process.  sIn is the content of the Loinc.csv file, qParts the promises  *)
(* the calls returned, mCtx the module variable loincUtils (0 undefined,    *)
(* else the number of the object), rowNum counts the reads of the file and  *)
(* pass the runs of the then-callback, each of which assigns loincToParts   *)
(* and partLowerToName and builds the index.                                *)

\* number of calls of getLoincTableUtil in the load specification
MaxCalls == 3

\* a row loadLoincTable resolves to, for an entry profile
LoincFileRow(profile, id) ==
  [f \in PartTypes \cup {"LOINC_NUM", "LONG_COMMON_NAME", "STATUS", "EXAMPLE_UCUM_UNITS"} |->
     IF f \in PartTypes THEN First(profile[f])
     ELSE IF f = "LOINC_NUM" THEN T(id)
     ELSE IF f = "LONG_COMMON_NAME" THEN <<"name of", id>>
     ELSE IF f = "STATUS" THEN T("ACTIVE")
     ELSE Empty]

\* loincs.forEach of getLoincTableUtil: copyFields and a list of zero or one
\* part name per part type
PartsOfRows(loincs) ==
  [i \in 1..Len(loincs) |->
     [f \in DOMAIN loincs[i] |->
        IF f \in PartTypes
        THEN (IF Truthy(loincs[i][f]) THEN <<loincs[i][f]>> ELSE <<>>)
        ELSE loincs[i][f]]]

InitLoad ==
  /\ \E cat \in [1..IndexLoincs -> IndexProfiles] :
       sIn = [file |-> [i \in 1..IndexLoincs |-> LoincFileRow(cat[i], IndexIdList[i])]]
  /\ loincToParts = <<>>
  /\ loincPartIndexex = <<>>
  /\ mCtx = [loincUtils |-> 0]
  /\ qParts = <<>>
  /\ pcnRows = <<>>
  /\ pc = "l_run"
  /\ rowNum = 0
  /\ pass = 0
  /\ qResult = <<>>
  /\ mStatus = <<>>
  /\ sOut = <<>>
  /\ hist = <<>>

\* getLoincTableUtil(loincTableFile, unitPropXlsx) up to the return of the
\* promise: resolve(loincUtils) if it is set, and, with no return after it,
\* loadLoincTable starts reading the file
GetLoincTableUtil ==
  /\ pc = "l_run"
  /\ Len(qParts) < MaxCalls
  /\ qParts' = Append(qParts, [late |-> mCtx.loincUtils # 0, resolved |-> mCtx.loincUtils,
                               read |-> TRUE, built |-> FALSE])
  /\ rowNum' = rowNum + 1
  /\ UNCHANGED <<loincToParts, loincPartIndexex, pcnRows, pc, pass, qResult, mCtx, mStatus,
                 sIn, sOut, hist>>

\* the then-callback of loadLoincTable for one of the calls: the module
\* variables are assigned, the index is built, loincUtils is a new object,
\* and resolve(loincUtils) settles the promise unless it is settled
LoadLoincTableThen ==
  /\ pc = "l_run"
  /\ \E i \in 1..Len(qParts) :
       /\ qParts[i].read /\ ~qParts[i].built
       /\ qParts' = [qParts EXCEPT ![i].built = TRUE,
                                   ![i].resolved = IF @ = 0 THEN pass + 1 ELSE @]
  /\ loincToParts' = PartsOfRows(sIn.file)
  /\ loincPartIndexex' = buildLoincPartsIndex(loincToParts')
  /\ pass' = pass + 1
  /\ mCtx' = [loincUtils |-> pass + 1]
  /\ UNCHANGED <<pcnRows, pc, rowNum, qResult, mStatus, sIn, sOut, hist>>

NextLoad == GetLoincTableUtil \/ LoadLoincTableThen

SpecLoad == InitLoad /\ [][NextLoad]_vars

\* C29: a call of getLoincTableUtil made after a first call has resolved
\* resolves to the utility object of the first call and does not read the
\* catalog file again, assign loincToParts or partLowerToName, or build the
\* index again.
C29_BuiltOnce ==
  pc = "l_run" =>
    \A i \in 1..Len(qParts) :
       qParts[i].late => (qParts[i].resolved = 1 /\ ~qParts[i].read /\ ~qParts[i].built)

-----------------------------------------------------------------------------
(* The full-match bonus and the relaxations                                *)

\* the matches selectBestMatch gave a score to
ScoredMatches ==
  IF Len(sIn.allMatches) > 1 THEN {sOut.best} \cup Range(sOut.rest) ELSE {}

\* the +50 is in the score of the match
HasBonus(m) ==
  m.score = 5000
            - (IF m.relaxations # <<>> THEN RelaxationPenalty[Len(m.relaxations)] ELSE 0)
            - (IF m.STATUS = T("DEPRECATED") THEN 2000 ELSE 0)
            - (IF m.STATUS = T("DISCOURAGED") THEN 1000 ELSE 0)
            + (IF SpecimenBoost(m, sIn.row) THEN 3500 ELSE 0)
            + (IF Truthy(sIn.row.RAW_UNIT) /\ sIn.row.RAW_UNIT = m.EXAMPLE_UCUM_UNITS
               THEN 1000 ELSE 0)
            + 5000

\* C30: a match that gets the +50 of selectBestMatch (all seven part types
\* counted as agreeing with the inferred names or the record's parts) was
\* accepted by the matcher with no relaxation.
C30_BonusWithoutRelaxation ==
  pc \in {"s_selected", "s_written"} =>
    \A m \in ScoredMatches : HasBonus(m) => m.relaxations = <<>>

\* the primary has the bonus and no relaxation, an alternate was accepted
\* with a relaxation and has no bonus
C30_Witness ==
  /\ pc = "s_selected"
  /\ Len(sIn.allMatches) > 1
  /\ HasBonus(sOut.best) /\ sOut.best.relaxations = <<>>
  /\ \E k \in 1..Len(sOut.rest) : sOut.rest[k].relaxations # <<>> /\ ~HasBonus(sOut.rest[k])

====
